---- MODULE Spec2Model ----
(***************************************************************************)
(* The deduction engine of the Clue simulator: the possibility matrix,     *)
(* the at-least-one constraint store and the propagation loop of           *)
(* Knowledge/ImprovedKnowledgeBase.py, with the refutation rules of        *)
(* Game/GameLogic.py that feed it.                                         *)
(***************************************************************************)
EXTENDS Integers, Sequences, FiniteSets, TLC

(***************************************************************************)
(* Bounds: how many calls, events, eliminations, stepwise calls, turns and *)
(* accusations a behaviour of each specification makes.                    *)
(***************************************************************************)
MaxCalls == 3
MaxEvents == 2
MaxElims == 4
MaxStepCalls == 2
MaxTurns == 1
MaxAccusations == 1
MaxObserved == 2
MaxHand == 4
MaxNamed == 2
MaxSuggested == 2
MaxAccused == 1
MaxPaired == 2
MaxDecisions == 4
MaxLearned == 1
MaxMoved == 2
MaxOffered == 2

(***************************************************************************)
(* Vocabulary.  The engine is size-agnostic; the model keeps the three     *)
(* categories and shrinks each card list and the player list.              *)
(***************************************************************************)
\* [p.player_id for p in game.players]
player_ids == <<0, 1, 2>>
NumPlayers == Len(player_ids)

character_names == <<"S1", "S2", "S3">>
weapon_names == <<"W1", "W2">>
room_names == <<"R1", "R2">>

Range(s) == {s[i] : i \in 1..Len(s)}

Suspects == Range(character_names)
Weapons == Range(weapon_names)
Rooms == Range(room_names)

\* self.categories, in insertion order: suspect, weapon, room
categories == <<character_names, weapon_names, room_names>>

\* self.cards
Cards == Suspects \cup Weapons \cup Rooms

\* player ids, as the tests create them: 0 .. len(players)-1
Players == Range(player_ids)

\* the envelope is the last holder: holder_to_idx["ENVELOPE"] == len(players)
ENVELOPE == NumPlayers

\* self.holders
Holders == Players \cup {ENVELOPE}

\* a card name and a holder id outside the vocabulary
UnknownCard == "Unknown"
UnknownHolder == ENVELOPE + 2

\* responding_player_id / shown_card / _solution when absent
None == ENVELOPE + 1
NoCard == "None"
NoSolution == <<>>
NoEvent == <<>>

VARIABLES
    poss,            \* self.poss: card -> holder -> BOOLEAN
    atleast_one,     \* self.atleast_one: sequence of [holder, cards]
    changed,         \* self.changed
    solution_known,  \* self.solution_known
    solution,        \* self._solution
    outcome,         \* how the last public call ended: "returned" or "raised"
    calls,           \* number of public calls made so far
    recorded,        \* history: every [holder, cards] given to record_atleast_one
    refuted,         \* history: every [holder, cards] of a refutation with unknown card
    env_eliminated,  \* history: the cards named in eliminate(card, ENVELOPE) calls
    passes,          \* history: iterations of the while loop in the current call
    hands,           \* game.players[i].hand: player -> the cards dealt to them
    game_solution,   \* game.solution: (room, suspect, weapon)
    eliminated,      \* the players with eliminated set
    player_id,       \* the player who owns the knowledge base
    knowledge,       \* whether that player's knowledge attribute is not None
    event,           \* history: the arguments of the last call that keeps them
    assigned,        \* history: every <<card, holder>> a caller gave to set_holder
    excluded,        \* history: every <<card, holder>> a caller gave to eliminate
    events,          \* PlayerKnowledge.events
    my_cards,        \* PlayerKnowledge.my_cards
    player_cards,    \* PlayerKnowledge.player_cards: player -> cards known held
    player_not_cards, \* PlayerKnowledge.player_not_cards: player -> cards not held
    possible_solution, \* PlayerKnowledge.possible_solution: category -> cards
    knowledge_base,  \* a KnowledgeBase (set-based engine): its fields
    made_wrong_accusation, \* the players with made_wrong_accusation set
    game_over,       \* game.game_over
    winner,          \* game.winner: a player, or None
    current_player_idx, \* game.current_player_idx
    suggested,       \* history: the last suggestion, who was asked, who responded
    player_class,    \* the class of the computer player
    position,        \* player.character.position
    turn_count,      \* player.turn_count
    last_positions,  \* player.last_positions: a deque(maxlen=3)
    previous_suggestions, \* player.previous_suggestions: (suspect, weapon, room)
    must_exit_next_turn, \* player.must_exit_next_turn
    last_suggestion_room, \* player.last_suggestion_room
    score_sheet      \* a ScoreSheet: its fields

gameVars == <<hands, game_solution, eliminated, player_id, knowledge>>

vars == <<poss, atleast_one, changed, solution_known, solution, outcome, calls,
          recorded, refuted, env_eliminated, passes, hands, game_solution,
          eliminated, player_id, knowledge, event, assigned, excluded,
          events, my_cards, player_cards, player_not_cards, possible_solution,
          knowledge_base, made_wrong_accusation, game_over, winner,
          current_player_idx, suggested, player_class, position, turn_count,
          last_positions, previous_suggestions, must_exit_next_turn,
          last_suggestion_room, score_sheet>>

callVars == <<assigned, excluded>>

\* the fields of a player's PlayerKnowledge
knowledgeVars == <<events, my_cards, player_cards, player_not_cards,
                   possible_solution>>

\* the state outside the matrix engine and the game it is attached to
\* how the game stands, and what was last suggested
endVars == <<made_wrong_accusation, game_over, winner, current_player_idx,
             suggested>>

\* the attributes of a computer player and where its character stands
aiVars == <<player_class, position, turn_count, last_positions,
            previous_suggestions, must_exit_next_turn, last_suggestion_room>>

sideVars == <<knowledgeVars, knowledge_base, endVars, aiVars, score_sheet>>

(***************************************************************************)
(* The knowledge base as a value, so that the handlers compose.            *)
(***************************************************************************)
KB == [poss |-> poss, atleast_one |-> atleast_one, changed |-> changed,
       solution_known |-> solution_known, solution |-> solution]

\* ImprovedKnowledgeBase.__init__
NewKB == [poss |-> [c \in Cards |-> [h \in Holders |-> TRUE]],
          atleast_one |-> <<>>,
          changed |-> FALSE,
          solution_known |-> FALSE,
          solution |-> NoSolution]

\* the row of the matrix as a set: possible_holders(card)
possible_holders_of(P, card) ==
    IF card \notin Cards THEN {} ELSE {h \in Holders : P[card][h]}

_is_assigned(P, card) == Cardinality({h \in Holders : P[card][h]}) = 1

_is_assigned_to(P, card, holder) == _is_assigned(P, card) /\ P[card][holder]

\* poss[card_idx, :] = False; poss[card_idx, holder_idx] = True
AssignRow(P, card, holder) == [P EXCEPT ![card] = [h \in Holders |-> h = holder]]

\* Rule 1: a card with one possibility that is not assigned sets changed
_apply_single_possibility_rule(K) ==
    IF \E c \in Cards : Cardinality({h \in Holders : K.poss[c][h]}) = 1
                        /\ ~_is_assigned(K.poss, c)
    THEN [K EXCEPT !.changed = TRUE]
    ELSE K

\* Rule 2: one constraint of the store, against the matrix as it stands
RECURSIVE ProcessConstraints(_, _, _)
ProcessConstraints(K, i, remaining) ==
    IF i > Len(K.atleast_one)
    THEN [K EXCEPT !.atleast_one = remaining]
    ELSE LET con == K.atleast_one[i]
             possible_cards == {c \in con.cards : K.poss[c][con.holder]}
         IN  IF possible_cards = {}
             THEN ProcessConstraints(K, i + 1, remaining)
             ELSE IF Cardinality(possible_cards) = 1
             THEN LET card == CHOOSE c \in possible_cards : TRUE
                  IN  ProcessConstraints(
                          [K EXCEPT !.poss = AssignRow(K.poss, card, con.holder),
                                    !.changed = TRUE],
                          i + 1, remaining)
             ELSE IF \E c \in con.cards : _is_assigned_to(K.poss, c, con.holder)
             THEN ProcessConstraints(K, i + 1, remaining)
             ELSE ProcessConstraints(K, i + 1, Append(remaining, con))

\* the rule without its last statement: the list of constraints is not updated
ConstraintsNeverDropped(K) ==
    [ProcessConstraints(K, 1, <<>>) EXCEPT !.atleast_one = K.atleast_one]

_process_atleast_one_constraints(K) == ProcessConstraints(K, 1, <<>>)

\* Rule 3, for one category
ExclusivityIn(K, card_list) ==
    LET possible_envelope_cards == {c \in Range(card_list) : K.poss[c][ENVELOPE]}
    IN  IF Cardinality(possible_envelope_cards) = 1
        THEN LET card == CHOOSE c \in possible_envelope_cards : TRUE
             IN  IF ~_is_assigned(K.poss, card)
                 THEN [K EXCEPT !.poss = AssignRow(K.poss, card, ENVELOPE),
                                !.changed = TRUE]
                 ELSE K
        ELSE K

\* the rule applied to the suspects alone
ExclusivityForSuspectsOnly(K) == ExclusivityIn(K, categories[1])

\* for category, card_list in self.categories.items()
_apply_envelope_exclusivity(K) ==
    CHOOSE after \in
        {ExclusivityIn(k2, categories[3]) : k2 \in
            {ExclusivityIn(k1, categories[2]) : k1 \in
                {ExclusivityIn(K, categories[1])}}} : TRUE

\* the cards of a category that are assigned to the envelope, in list order
EnvelopeOnly(P, card_list) ==
    SelectSeq(card_list, LAMBDA c : _is_assigned_to(P, c, ENVELOPE))

\* the flag computed afresh on every pass, cleared when the test fails
SolutionRecomputed(K) ==
    LET known == \A k \in 1..Len(categories) : Len(EnvelopeOnly(K.poss, categories[k])) = 1
    IN  [K EXCEPT !.solution_known = known]

\* the check left out of the pass
SolutionNeverRecorded(K) == K

_check_solution(K) ==
    LET envelope_suspects == EnvelopeOnly(K.poss, categories[1])
        envelope_weapons == EnvelopeOnly(K.poss, categories[2])
        envelope_rooms == EnvelopeOnly(K.poss, categories[3])
    IN  IF Len(envelope_suspects) = 1 /\ Len(envelope_weapons) = 1
           /\ Len(envelope_rooms) = 1
        THEN [K EXCEPT !.solution_known = TRUE,
                       !.solution = <<envelope_suspects[1], envelope_weapons[1],
                                      envelope_rooms[1]>>]
        ELSE K

\* one iteration of the while loop of _propagate: each rule works on the
\* knowledge base the one before it left behind
PropagatePass(K) ==
    CHOOSE after \in
        {_check_solution(k3) : k3 \in
            {_apply_envelope_exclusivity(k2) : k2 \in
                {_process_atleast_one_constraints(k1) : k1 \in
                    {_apply_single_possibility_rule(k0) : k0 \in
                        {[K EXCEPT !.changed = FALSE]}}}}} : TRUE

\* an if in place of the while: one iteration at most
PropagateOnce(K) == IF K.changed THEN PropagatePass(K) ELSE K

RECURSIVE _propagate(_)
_propagate(K) == IF K.changed THEN _propagate(PropagatePass(K)) ELSE K

\* set_holder up to its call of _propagate
SetHolderEntry(K, card, holder) ==
    [K EXCEPT !.poss = AssignRow(K.poss, card, holder), !.changed = TRUE]

set_holder(K, card, holder) ==
    IF card \notin Cards
    THEN K
    ELSE _propagate(SetHolderEntry(K, card, holder))

\* eliminate up to its call of _propagate
EliminateEntry(K, card, holder) ==
    [K EXCEPT !.poss[card][holder] = FALSE, !.changed = TRUE]

eliminate(K, card, holder) ==
    IF card \notin Cards \/ holder \notin Holders
    THEN K
    ELSE IF ~K.poss[card][holder]
    THEN K
    ELSE _propagate(EliminateEntry(K, card, holder))

\* record_atleast_one up to its call of _propagate
RecordEntry(K, holder, card_indices) ==
    [K EXCEPT !.atleast_one = Append(K.atleast_one,
                                     [holder |-> holder, cards |-> card_indices]),
              !.changed = TRUE]

record_atleast_one(K, holder, card_set) ==
    LET card_indices == card_set \cap Cards
    IN  IF card_indices = {}
        THEN K
        ELSE _propagate(RecordEntry(K, holder, card_indices))

\* the three cards of a suggestion, in each order a Python set may iterate them
Orders(suggestion) ==
    {o \in [1..3 -> Range(suggestion)] : \A i, j \in 1..3 : i # j => o[i] # o[j]}

RECURSIVE EliminateEach(_, _, _, _)
EliminateEach(K, order, i, holder) ==
    IF i > Len(order)
    THEN K
    ELSE EliminateEach(eliminate(K, order[i], holder), order, i + 1, holder)

RECURSIVE SetHolderEach(_, _, _, _)
SetHolderEach(K, order, i, holder) ==
    IF i > Len(order)
    THEN K
    ELSE SetHolderEach(set_holder(K, order[i], holder), order, i + 1, holder)

\* the while loop over the players who passed, by index in player_ids
RECURSIVE WalkPassed(_, _, _, _)
WalkPassed(K, current_idx, responder_idx, order) ==
    IF current_idx = responder_idx
    THEN K
    ELSE WalkPassed(EliminateEach(K, order, 1, current_idx),
                    (current_idx + 1) % NumPlayers, responder_idx, order)

\* the card that was shown is not looked at: case 1 is never taken
SeenCardIgnored(K, suggesting_player_id, suggestion, responding_player_id, shown_card, order) ==
    IF responding_player_id # None
    THEN WalkPassed(record_atleast_one(K, responding_player_id, Range(suggestion)),
                    (suggesting_player_id + 1) % NumPlayers,
                    responding_player_id, order)
    ELSE SetHolderEach(K, order, 1, ENVELOPE)

\* suggestion is <<suspect, weapon, room>>; order is the iteration order of
\* cards_in_suggestion
update_from_suggestion(K, suggesting_player_id, suggestion, responding_player_id, shown_card, order) ==
    IF shown_card # NoCard
    THEN set_holder(K, shown_card, responding_player_id)
    ELSE IF responding_player_id # None
    THEN WalkPassed(record_atleast_one(K, responding_player_id, Range(suggestion)),
                    (suggesting_player_id + 1) % NumPlayers,
                    responding_player_id, order)
    ELSE SetHolderEach(K, order, 1, ENVELOPE)

\* every <<suspect, weapon, room>> a player can name
Suggestions == {<<s, w, r>> : s \in Suspects, w \in Weapons, r \in Rooms}

\* the iteration orders that can differ in effect: one when nobody passed, since
\* the loop over the cards then never runs
OrdersRead(suggestion, passed) ==
    IF passed = {} THEN {suggestion} ELSE Orders(suggestion)

\* the players asked before the responder, who passed
Passed(suggesting_player_id, responding_player_id) ==
    {p \in Players : p # suggesting_player_id /\ p # responding_player_id
                     /\ (p - suggesting_player_id) % NumPlayers
                        < (responding_player_id - suggesting_player_id) % NumPlayers}

Install(K) ==
    \E after \in {K} :
        /\ poss' = after.poss
        /\ atleast_one' = after.atleast_one
        /\ changed' = after.changed
        /\ solution_known' = after.solution_known
        /\ solution' = after.solution

\* the loop stopped after the first card of the hand
SeedsFirstCardOnly(K, owner, hand) ==
    IF hand = <<>> THEN K ELSE set_holder(K, Head(hand), owner)

\* for card_type, card_name in hand: self.set_holder(card_name, self.player_id);
\* owner is self.player_id
RECURSIVE initialize_with_hand(_, _, _)
initialize_with_hand(K, owner, hand) ==
    IF hand = <<>>
    THEN K
    ELSE initialize_with_hand(set_holder(K, Head(hand), owner), owner, Tail(hand))

\* the variables of the engine hold the knowledge base K
Holds(K) ==
    /\ poss = K.poss
    /\ atleast_one = K.atleast_one
    /\ changed = K.changed
    /\ solution_known = K.solution_known
    /\ solution = K.solution

\* PlayerKnowledge.__init__: nothing seen, every card a solution candidate
NewKnowledge ==
    [events |-> <<>>,
     my_cards |-> {},
     player_cards |-> [p \in Players |-> {}],
     player_not_cards |-> [p \in Players |-> {}],
     possible_solution |-> [suspects |-> Suspects, weapons |-> Weapons,
                            rooms |-> Rooms]]

\* the fields of the PlayerKnowledge hold the value K
Keeps(K) ==
    /\ events = K.events
    /\ my_cards = K.my_cards
    /\ player_cards = K.player_cards
    /\ player_not_cards = K.player_not_cards
    /\ possible_solution = K.possible_solution

\* KnowledgeBase.__init__: every holder possible for every card, every card
\* an envelope candidate
NewKnowledgeBase ==
    [possibility_matrix |-> [c \in Cards |-> Holders],
     envelope_suspects |-> Suspects,
     envelope_weapons |-> Weapons,
     envelope_rooms |-> Rooms,
     solution_known |-> FALSE,
     solution |-> NoSolution]

\* Game.__init__ and Player.__init__: the game is on, nobody has accused
NewGame ==
    /\ made_wrong_accusation = {}
    /\ game_over = FALSE
    /\ winner = None
    /\ current_player_idx = 0
    /\ suggested = NoEvent

\* a move, and a position: a room name, a (room, row, col) entrance of a
\* room, or a (row, col) square of a hallway
Str(room) == [kind |-> "str", at |-> room]
Entrance(room) == [kind |-> "tuple3", at |-> room]
Hallway(square) == [kind |-> "tuple2", at |-> square]

\* make_move returns None; Character.__init__ leaves position None
NoMove == [kind |-> "None", at |-> "None"]

(***************************************************************************)
(* ScoreSheet: what a player has written down about who holds which card.  *)
(***************************************************************************)
\* ScoreSheet.__init__ for len(player_names) == num_players: every status is
\* None, the solution sets are empty
NewScoreSheet(num_players) ==
    [num_players |-> num_players,
     player_knowledge |-> [pid \in 0..(num_players - 1) |-> [c \in Cards |-> "None"]],
     solution_suspects |-> {},
     solution_weapons |-> {},
     solution_rooms |-> {}]

\* ScoreSheet.mark_solution_card
mark_solution_card(S, card_name) ==
    LET crossed == [pid \in 0..(S.num_players - 1) |->
                        [S.player_knowledge[pid] EXCEPT ![card_name] = "not_has"]]
    IN  IF card_name \in Suspects
        THEN [S EXCEPT !.solution_suspects = @ \cup {card_name},
                       !.player_knowledge = crossed]
        ELSE IF card_name \in Weapons
        THEN [S EXCEPT !.solution_weapons = @ \cup {card_name},
                       !.player_knowledge = crossed]
        ELSE IF card_name \in Rooms
        THEN [S EXCEPT !.solution_rooms = @ \cup {card_name},
                       !.player_knowledge = crossed]
        ELSE S

\* mark_player_has_card without the loop over the other players
MarkHasOnly(S, player, card_name) ==
    IF player < 0 \/ player >= S.num_players
    THEN S
    ELSE IF card_name \notin Cards
    THEN S
    ELSE [S EXCEPT !.player_knowledge[player][card_name] = "has",
                   !.solution_suspects = @ \ {card_name},
                   !.solution_weapons = @ \ {card_name},
                   !.solution_rooms = @ \ {card_name}]

\* ScoreSheet.mark_player_has_card
mark_player_has_card(S, player, card_name) ==
    IF player < 0 \/ player >= S.num_players
    THEN S
    ELSE IF card_name \notin Cards
    THEN S
    ELSE [S EXCEPT !.player_knowledge =
                       [pid \in 0..(S.num_players - 1) |->
                           [S.player_knowledge[pid] EXCEPT ![card_name] =
                               IF pid = player THEN "has" ELSE "not_has"]],
                   !.solution_suspects = IF card_name \in Suspects
                                         THEN @ \ {card_name} ELSE @,
                   !.solution_weapons = IF card_name \notin Suspects
                                           /\ card_name \in Weapons
                                        THEN @ \ {card_name} ELSE @,
                   !.solution_rooms = IF card_name \notin Suspects
                                         /\ card_name \notin Weapons
                                         /\ card_name \in Rooms
                                      THEN @ \ {card_name} ELSE @]

\* ScoreSheet.mark_player_not_has_card
mark_player_not_has_card(S, player, card_name) ==
    IF player < 0 \/ player >= S.num_players
    THEN S
    ELSE IF card_name \notin Cards
    THEN S
    ELSE LET marked == [S EXCEPT !.player_knowledge[player][card_name] = "not_has"]
             all_players_not_have ==
                 \A pid \in 0..(S.num_players - 1) :
                     marked.player_knowledge[pid][card_name] = "not_has"
         IN  IF all_players_not_have
             THEN mark_solution_card(marked, card_name)
             ELSE marked

\* no score sheet is looked at: the one of a game of NumPlayers, left blank
NoSheet == score_sheet = NewScoreSheet(NumPlayers)

\* Player.__init__ and the __init__ of the computer players: no strategy
\* state yet
NoStrategy ==
    /\ position = NoMove
    /\ turn_count = 0
    /\ last_positions = <<>>
    /\ previous_suggestions = {}
    /\ must_exit_next_turn = FALSE
    /\ last_suggestion_room = NoCard

\* the state outside the matrix engine as construction leaves it
NoSide ==
    /\ Keeps(NewKnowledge)
    /\ knowledge_base = NewKnowledgeBase
    /\ NewGame
    /\ player_class = "Player"
    /\ NoStrategy
    /\ NoSheet


\* no call of the matrix engine has been made yet
NoCalls ==
    /\ outcome = "returned"
    /\ calls = 0
    /\ recorded = {}
    /\ refuted = {}
    /\ env_eliminated = {}
    /\ passes = 0
    /\ event = NoEvent
    /\ assigned = {}
    /\ excluded = {}

\* no call has been made yet
NoHistory == NoCalls /\ NoSide

\* the knowledge base stands alone: no game is attached
NoGame ==
    /\ hands = [p \in Players |-> {}]
    /\ game_solution = NoSolution
    /\ eliminated = {}
    /\ player_id = None
    /\ knowledge = FALSE

\* a knowledge base as its constructor leaves it
Init == Holds(NewKB) /\ NoHistory /\ NoGame

\* the hands a knowledge base is seeded with: no card, or one card
Hands == {<<>>} \cup {<<c>> : c \in Cards}

\* a knowledge base as a player owns it: constructed, then seeded with the hand
InitSeeded ==
    /\ \E start \in {initialize_with_hand(NewKB, p, hand) : p \in Players, hand \in Hands} :
           Holds(start)
    /\ NoHistory
    /\ NoGame

\* every public call of the engine returns normally: none raises, none reports
Returned(bound) ==
    /\ calls < bound
    /\ calls' = calls + 1
    /\ outcome' = "returned"
    /\ UNCHANGED gameVars
    /\ UNCHANGED event
    /\ UNCHANGED sideVars

SetHolder(card, holder) ==
    /\ Returned(MaxCalls)
    /\ Install(set_holder(KB, card, holder))
    /\ assigned' = assigned \cup {<<card, holder>>}
    /\ UNCHANGED <<recorded, refuted, env_eliminated, passes, excluded>>

Eliminate(card, holder) ==
    /\ Returned(MaxCalls)
    /\ Install(eliminate(KB, card, holder))
    /\ excluded' = excluded \cup {<<card, holder>>}
    /\ UNCHANGED <<recorded, refuted, env_eliminated, passes, assigned>>

RecordAtleastOne(holder, card_set) ==
    /\ Returned(MaxCalls)
    /\ Install(record_atleast_one(KB, holder, card_set))
    /\ recorded' = recorded \cup {[holder |-> holder, cards |-> card_set]}
    /\ UNCHANGED <<refuted, env_eliminated, passes>>
    /\ UNCHANGED <<callVars, sideVars>>

\* update_from_suggestion, case 1: the observer saw the card.  The branch reads
\* only shown_card and responding_player_id.
SuggestionShown(responding_player_id, shown_card) ==
    LET suggestion == CHOOSE s \in Suggestions : shown_card \in Range(s)
        suggesting_player_id == CHOOSE p \in Players : p # responding_player_id
        order == suggestion
    IN  /\ Returned(MaxEvents)
        /\ Install(update_from_suggestion(KB, suggesting_player_id, suggestion,
                                          responding_player_id, shown_card, order))
        /\ UNCHANGED <<recorded, refuted, env_eliminated, passes>>
        /\ UNCHANGED <<callVars, sideVars>>

\* update_from_suggestion, case 2: somebody refuted, the card is not known
SuggestionRefuted(suggesting_player_id, suggestion, responding_player_id, order) ==
    /\ Returned(MaxEvents)
    /\ responding_player_id # suggesting_player_id
    /\ Install(update_from_suggestion(KB, suggesting_player_id, suggestion,
                                      responding_player_id, NoCard, order))
    /\ recorded' = recorded \cup {[holder |-> responding_player_id,
                                   cards |-> Range(suggestion)]}
    /\ refuted' = refuted \cup {[holder |-> responding_player_id,
                                 cards |-> Range(suggestion)]}
    /\ UNCHANGED <<env_eliminated, passes>>
    /\ UNCHANGED <<callVars, sideVars>>

\* update_from_suggestion, case 3: nobody refuted.  The branch does not read
\* suggesting_player_id.
SuggestionUnrefuted(suggestion, order) ==
    LET suggesting_player_id == CHOOSE p \in Players : TRUE
    IN  /\ Returned(MaxEvents)
        /\ Install(update_from_suggestion(KB, suggesting_player_id, suggestion,
                                          None, NoCard, order))
        /\ UNCHANGED <<recorded, refuted, env_eliminated, passes>>
        /\ UNCHANGED <<callVars, sideVars>>

Next ==
    \/ \E card \in Cards, holder \in Holders : SetHolder(card, holder)
    \/ \E card \in Cards, holder \in Holders : Eliminate(card, holder)
    \/ \E holder \in Players, suggestion \in Suggestions :
           RecordAtleastOne(holder, Range(suggestion))

\* the public mutators of the engine, called in any order with any arguments
Spec == Init /\ [][Next]_vars

NextEvents ==
    \/ \E responding \in Players, shown_card \in Cards :
           SuggestionShown(responding, shown_card)
    \/ \E suggesting \in Players, suggestion \in Suggestions, responding \in Players :
           \E order \in OrdersRead(suggestion, Passed(suggesting, responding)) :
               SuggestionRefuted(suggesting, suggestion, responding, order)
    \/ \E suggestion \in Suggestions :
           \E order \in Orders(suggestion) : SuggestionUnrefuted(suggestion, order)

\* the suggestion events of a game, in any order, as update_from_suggestion sees them
SpecEvents == InitSeeded /\ [][NextEvents]_vars

(***************************************************************************)
(* The same events from a fresh knowledge base, with the arguments of the  *)
(* last call kept, so that what a call did can be set against what it was  *)
(* given.                                                                  *)
(***************************************************************************)
Observed(suggesting_player_id, suggestion, responding_player_id, shown_card, order) ==
    /\ calls < MaxObserved
    /\ calls' = calls + 1
    /\ outcome' = "returned"
    /\ Install(update_from_suggestion(KB, suggesting_player_id, suggestion,
                                      responding_player_id, shown_card, order))
    /\ event' = [suggesting_player_id |-> suggesting_player_id,
                 suggestion |-> suggestion,
                 responding_player_id |-> responding_player_id,
                 shown_card |-> shown_card]
    /\ UNCHANGED <<env_eliminated, passes>>
    /\ UNCHANGED gameVars
    /\ UNCHANGED <<callVars, sideVars>>

ObservedShown(suggesting_player_id, suggestion, responding_player_id, shown_card) ==
    /\ responding_player_id # suggesting_player_id
    /\ shown_card \in Range(suggestion)
    /\ Observed(suggesting_player_id, suggestion, responding_player_id, shown_card,
                suggestion)
    /\ UNCHANGED <<recorded, refuted>>

ObservedRefuted(suggesting_player_id, suggestion, responding_player_id, order) ==
    /\ responding_player_id # suggesting_player_id
    /\ Observed(suggesting_player_id, suggestion, responding_player_id, NoCard, order)
    /\ recorded' = recorded \cup {[holder |-> responding_player_id,
                                   cards |-> Range(suggestion)]}
    /\ refuted' = refuted \cup {[holder |-> responding_player_id,
                                 cards |-> Range(suggestion)]}

ObservedUnrefuted(suggesting_player_id, suggestion, order) ==
    /\ Observed(suggesting_player_id, suggestion, None, NoCard, order)
    /\ UNCHANGED <<recorded, refuted>>

NextObserved ==
    \/ \E suggesting \in Players, suggestion \in Suggestions, responding \in Players :
           \E shown_card \in Range(suggestion) :
               ObservedShown(suggesting, suggestion, responding, shown_card)
    \/ \E suggesting \in Players, suggestion \in Suggestions, responding \in Players :
           \E order \in OrdersRead(suggestion, Passed(suggesting, responding)) :
               ObservedRefuted(suggesting, suggestion, responding, order)
    \/ \E suggesting \in Players, suggestion \in Suggestions :
           \E order \in Orders(suggestion) :
               ObservedUnrefuted(suggesting, suggestion, order)

SpecObserved == Init /\ [][NextObserved]_vars

(***************************************************************************)
(* Seeding: initialize_knowledge_base constructs the knowledge base and    *)
(* seeds it with the hand of its owner.                                    *)
(***************************************************************************)
\* the hands a deal can produce: distinct cards, in the order they were
\* dealt, that leave a card of every category for the envelope
DealtHands ==
    {hand \in UNION {[1..n -> Cards] : n \in 0..MaxHand} :
        /\ \A i, j \in 1..Len(hand) : i # j => hand[i] # hand[j]
        /\ \A k \in 1..Len(categories) : ~(Range(categories[k]) \subseteq Range(hand))}

InitializeKnowledgeBase(owner, hand) ==
    /\ player_id = None
    /\ calls' = calls + 1
    /\ outcome' = "returned"
    /\ Install(initialize_with_hand(NewKB, owner, hand))
    /\ hands' = [hands EXCEPT ![owner] = Range(hand)]
    /\ player_id' = owner
    /\ UNCHANGED <<recorded, refuted, env_eliminated, passes, event>>
    /\ UNCHANGED <<game_solution, eliminated, knowledge>>
    /\ UNCHANGED <<callVars, sideVars>>

NextSeed == \E owner \in Players, hand \in DealtHands : InitializeKnowledgeBase(owner, hand)

SpecSeed == Init /\ [][NextSeed]_vars

(***************************************************************************)
(* The mutators and possible_holders called with any name, known or not.   *)
(* A lookup of an unknown holder in holder_to_idx raises KeyError; nothing *)
(* catches it, so no call follows one that raised.                         *)
(***************************************************************************)
\* set_holder raises at holder_idx = self.holder_to_idx[holder], before it writes
SetHolderRaises(card, holder) == card \in Cards /\ holder \notin Holders

\* record_atleast_one raises inside _propagate, when rule 2 looks up the holder
RecordRaises(holder, card_set) == card_set \cap Cards # {} /\ holder \notin Holders

\* the knowledge base rule 2 leaves behind when it raises at the constraint
\* just appended: the earlier constraints were processed, the list was not
\* written back
RecordRaised(K, holder, card_indices) ==
    LET entered == RecordEntry(K, holder, card_indices)
        first == _apply_single_possibility_rule([entered EXCEPT !.changed = FALSE])
        done == ProcessConstraints([first EXCEPT !.atleast_one = K.atleast_one], 1, <<>>)
    IN  [done EXCEPT !.atleast_one = entered.atleast_one]

Named(call, raised, K) ==
    /\ calls < MaxNamed
    /\ outcome = "returned"
    /\ calls' = calls + 1
    /\ outcome' = IF raised THEN "raised" ELSE "returned"
    /\ Install(K)
    /\ event' = call
    /\ UNCHANGED <<recorded, refuted, env_eliminated, passes>>
    /\ UNCHANGED gameVars
    /\ UNCHANGED <<callVars, sideVars>>

NamedSetHolder(card, holder) ==
    Named([call |-> "set_holder", cards |-> {card}, holder |-> holder],
          SetHolderRaises(card, holder),
          IF SetHolderRaises(card, holder) THEN KB ELSE set_holder(KB, card, holder))

NamedEliminate(card, holder) ==
    Named([call |-> "eliminate", cards |-> {card}, holder |-> holder],
          FALSE,
          eliminate(KB, card, holder))

NamedRecord(holder, card_set) ==
    Named([call |-> "record_atleast_one", cards |-> card_set, holder |-> holder],
          RecordRaises(holder, card_set),
          IF RecordRaises(holder, card_set)
          THEN RecordRaised(KB, holder, card_set \cap Cards)
          ELSE record_atleast_one(KB, holder, card_set))

\* possible_holders returns set() for a card it does not know
NamedPossibleHolders(card) ==
    Named([call |-> "possible_holders", cards |-> {card}, holder |-> ENVELOPE],
          FALSE,
          KB)

\* the sets of card names a caller passes: the cards of a suggestion, with an
\* unknown name in the place of the suspect, or the unknown name alone
NamedCardSets ==
    {Range(suggestion) : suggestion \in Suggestions}
        \cup {{UnknownCard, w, r} : w \in Weapons, r \in Rooms}
        \cup {{UnknownCard}}

NextNamed ==
    \/ \E card \in Cards \cup {UnknownCard}, holder \in Holders \cup {UnknownHolder} :
           NamedSetHolder(card, holder)
    \/ \E card \in Cards \cup {UnknownCard}, holder \in Holders \cup {UnknownHolder} :
           NamedEliminate(card, holder)
    \/ \E holder \in Players \cup {UnknownHolder}, card_set \in NamedCardSets :
           NamedRecord(holder, card_set)
    \/ \E card \in Cards \cup {UnknownCard} : NamedPossibleHolders(card)

SpecNamed == Init /\ [][NextNamed]_vars

(***************************************************************************)
(* eliminate alone, from a fresh knowledge base.                           *)
(***************************************************************************)
ElimStep(card, holder) ==
    /\ Returned(MaxElims)
    /\ Install(eliminate(KB, card, holder))
    /\ env_eliminated' = IF holder = ENVELOPE THEN env_eliminated \cup {card}
                         ELSE env_eliminated
    /\ UNCHANGED <<recorded, refuted, passes>>
    /\ UNCHANGED <<callVars, sideVars>>

NextElim == \E card \in Cards, holder \in Holders : ElimStep(card, holder)

SpecElim == Init /\ [][NextElim]_vars

(***************************************************************************)
(* The propagation loop, one iteration at a time: a mutator writes its     *)
(* fact and sets changed, the loop runs while changed is set, and the      *)
(* call has returned when it is clear.                                     *)
(***************************************************************************)
Enter(K) ==
    /\ ~changed
    /\ calls < MaxStepCalls
    /\ calls' = calls + 1
    /\ Install(K)
    /\ passes' = 0
    /\ UNCHANGED <<outcome, refuted, env_eliminated, event>>
    /\ UNCHANGED <<callVars, sideVars>>
    /\ UNCHANGED gameVars

EnterSetHolder(card, holder) ==
    /\ Enter(SetHolderEntry(KB, card, holder))
    /\ UNCHANGED recorded

EnterEliminate(card, holder) ==
    /\ Enter(IF poss[card][holder] THEN EliminateEntry(KB, card, holder) ELSE KB)
    /\ UNCHANGED recorded

EnterRecord(holder, card_set) ==
    /\ Enter(RecordEntry(KB, holder, card_set \cap Cards))
    /\ recorded' = recorded \cup {[holder |-> holder, cards |-> card_set]}

\* card_set is any set of card names: one, two or three cards of a suggestion
CardSets ==
    {card_set \in SUBSET Cards :
        card_set # {} /\ \E suggestion \in Suggestions : card_set \subseteq Range(suggestion)}

Pass ==
    /\ changed
    /\ Install(PropagatePass(KB))
    /\ passes' = passes + 1
    /\ UNCHANGED <<outcome, calls, recorded, refuted, env_eliminated, event>>
    /\ UNCHANGED <<callVars, sideVars>>
    /\ UNCHANGED gameVars

NextSteps ==
    \/ \E card \in Cards, holder \in Holders : EnterSetHolder(card, holder)
    \/ \E card \in Cards, holder \in Holders : EnterEliminate(card, holder)
    \/ \E holder \in Players, card_set \in CardSets : EnterRecord(holder, card_set)
    \/ Pass

\* the loop is synchronous: once entered, it keeps running
SpecSteps == Init /\ [][NextSteps]_vars /\ WF_vars(Pass)

(***************************************************************************)
(* Real play: the cards are dealt, suggestions are resolved by             *)
(* process_suggestion and the outcome is fed to the knowledge base of one  *)
(* player.  Player ids are the indices of game.players.                    *)
(***************************************************************************)
Hand(p) == hands[p]

\* the sequences that list the elements of S once each
SeqsOf(S) ==
    LET n == Cardinality(S)
    IN  {q \in [1..n -> S] : \A i, j \in 1..n : i # j => q[i] # q[j]}

\* Game.distribute_cards: card i of the shuffled deck goes to player
\* i % num_players, so player p receives this many of n cards
HandSize(n, p) == (n - p + NumPlayers - 1) \div NumPlayers

\* random.shuffle(deck), then the deal: every way to hand out the cards that
\* are not in the envelope
Deals(envelope) ==
    LET rest == Cards \ envelope
    IN  {[p \in Players |-> {c \in rest : to[c] = p}] : to \in
             {t \in [rest -> Players] :
                 \A p \in Players :
                     Cardinality({c \in rest : t[c] = p})
                         = HandSize(Cardinality(rest), p)}}

InitPlay ==
    /\ \E envelope \in Suggestions, me \in Players, informed \in BOOLEAN :
         \E deal \in Deals(Range(envelope)) :
           \E hand \in SeqsOf(deal[me]) :
             /\ hands = deal
             /\ game_solution = <<envelope[3], envelope[1], envelope[2]>>
             /\ player_id = me
             /\ knowledge = informed
             /\ Holds(initialize_with_hand(NewKB, me, hand))
    /\ eliminated = {}
    /\ NoHistory

\* Player.respond_to_suggestion: the cards the player can show
respond_to_suggestion(p, suggestion) == Hand(p) \cap Range(suggestion)

\* process_suggestion: a player with eliminated and made_wrong_accusation set
\* is not asked
Skips(p) == p \in eliminated /\ p \in made_wrong_accusation

\* process_suggestion: the first player after the suggester who is asked and
\* can show a card, or None
Responder(suggesting_player, suggestion) ==
    LET asked == [k \in 1..(NumPlayers - 1) |-> (suggesting_player + k) % NumPlayers]
        can == {k \in 1..(NumPlayers - 1) :
                   /\ ~Skips(asked[k])
                   /\ respond_to_suggestion(asked[k], suggestion) # {}}
    IN  IF can = {} THEN None
        ELSE asked[CHOOSE k \in can : \A j \in can : k <= j]

\* process_suggestion: the cards the responder may show, None when nobody can
Shown(suggesting_player, suggestion) ==
    LET responding_player == Responder(suggesting_player, suggestion)
    IN  IF responding_player = None THEN {NoCard}
        ELSE respond_to_suggestion(responding_player, suggestion)

\* SmarterAIPlayer.update_knowledge_from_suggestion: the skipped players
RECURSIVE WalkSkipped(_, _, _, _)
WalkSkipped(K, current_id, responding_player, told) ==
    IF current_id = responding_player
    THEN K
    ELSE WalkSkipped(EliminateEach(K, told, 1, current_id),
                     (current_id + 1) % NumPlayers, responding_player, told)

\* told is (room, suspect, weapon)
update_knowledge_from_suggestion(K, suggesting_player, told, responding_player, revealed_card) ==
    IF player_id \in eliminated
    THEN K
    ELSE LET first ==
                 IF revealed_card # NoCard
                 THEN set_holder(K, revealed_card, responding_player)
                 ELSE IF responding_player = None
                 THEN SetHolderEach(K, told, 1, ENVELOPE)
                 ELSE record_atleast_one(K, responding_player, Range(told))
         IN  IF suggesting_player # player_id /\ responding_player # None
             THEN WalkSkipped(first, (suggesting_player + 1) % NumPlayers,
                              responding_player, told)
             ELSE first

\* the suggester is always told; everyone else only with a knowledge attribute
Told(suggesting_player, responding_player) ==
    IF responding_player # None /\ player_id = suggesting_player
    THEN TRUE
    ELSE knowledge

\* what the owner of the knowledge base sees of the card shown
Seen(suggesting_player, card) ==
    IF player_id = suggesting_player THEN card ELSE NoCard

\* the constraint a refutation adds, as a set of at most one record
Refutation(responding_player, revealed_card, suggestion) ==
    IF responding_player # None /\ revealed_card = NoCard
    THEN {[holder |-> responding_player, cards |-> Range(suggestion)]}
    ELSE {}

Played ==
    /\ calls < MaxTurns
    /\ calls' = calls + 1
    /\ outcome' = "returned"
    /\ UNCHANGED <<env_eliminated, passes, hands, game_solution, player_id, knowledge>>
    /\ UNCHANGED event
    /\ UNCHANGED <<callVars, sideVars>>

\* process_suggestion, observed by a SmarterAIPlayer
ProcessSuggestion(suggesting_player, suggestion, card) ==
    LET responding_player == Responder(suggesting_player, suggestion)
        told == <<suggestion[3], suggestion[1], suggestion[2]>>
        revealed_card == Seen(suggesting_player, card)
        fed == Told(suggesting_player, responding_player)
        noted == IF fed /\ player_id \notin eliminated
                 THEN Refutation(responding_player, revealed_card, suggestion)
                 ELSE {}
    IN  /\ Played
        /\ suggesting_player \notin eliminated
        /\ card \in Shown(suggesting_player, suggestion)
        /\ Install(IF fed
                   THEN update_knowledge_from_suggestion(
                            KB, suggesting_player, told, responding_player,
                            revealed_card)
                   ELSE KB)
        /\ recorded' = recorded \cup noted
        /\ refuted' = refuted \cup noted
        /\ UNCHANGED eliminated

\* process_suggestion, forwarded to update_from_suggestion as
\* KnowledgeAIPlayer.update_knowledge_from_suggestion does
ProcessSuggestionForwarded(suggesting_player, suggestion, card, order) ==
    LET responding_player == Responder(suggesting_player, suggestion)
        revealed_card == Seen(suggesting_player, card)
        fed == Told(suggesting_player, responding_player)
        noted == IF fed
                 THEN Refutation(responding_player, revealed_card, suggestion)
                 ELSE {}
    IN  /\ Played
        /\ suggesting_player \notin eliminated
        /\ card \in Shown(suggesting_player, suggestion)
        /\ Install(IF fed
                   THEN update_from_suggestion(
                            KB, suggesting_player, suggestion, responding_player,
                            revealed_card, order)
                   ELSE KB)
        /\ recorded' = recorded \cup noted
        /\ refuted' = refuted \cup noted
        /\ UNCHANGED eliminated

\* process_accusation: is_correct, where game.solution is (room, suspect,
\* weapon)
Verdict(suspect, weapon, room) ==
    /\ game_solution[1] = suspect
    /\ game_solution[2] = weapon
    /\ game_solution[3] = room

\* every flagged player, and their neighbour as well
AccusedWithNeighbour(flagged, accusing_player) ==
    flagged \cup {accusing_player, (accusing_player + 1) % NumPlayers}

\* the players with a flag set, once the accuser has it too
Accused(flagged, accusing_player) == flagged \cup {accusing_player}

\* process_accusation: game.end_game(winner) on a correct accusation; else
\* the accuser is flagged, and game.end_game() when no active player is left
process_accusation(accusing_player, suspect, weapon, room) ==
    LET correct == Verdict(suspect, weapon, room)
        out == IF correct THEN eliminated
               ELSE Accused(eliminated, accusing_player)
    IN  /\ eliminated' = out
        /\ made_wrong_accusation' =
               IF correct THEN made_wrong_accusation
               ELSE Accused(made_wrong_accusation, accusing_player)
        /\ game_over' = (correct \/ Players \ out = {} \/ game_over)
        /\ winner' = IF correct THEN accusing_player
                     ELSE IF Players \ out = {} THEN None
                     ELSE winner

\* process_accusation, on a turn that is still to be played
ProcessAccusation(accusing_player, suspect, weapon, room) ==
    /\ calls < MaxTurns
    /\ Cardinality(eliminated) < MaxAccusations
    /\ accusing_player \notin eliminated
    /\ process_accusation(accusing_player, suspect, weapon, room)
    /\ UNCHANGED <<poss, atleast_one, changed, solution_known, solution,
                   outcome, calls, recorded, refuted, env_eliminated, passes,
                   hands, game_solution, player_id, knowledge, event>>
    /\ UNCHANGED <<callVars, knowledgeVars, knowledge_base, aiVars, score_sheet>>
    /\ UNCHANGED <<current_player_idx, suggested>>

\* the accusations tried: the cards of the envelope, and one that names others
Accusations ==
    LET right == <<game_solution[2], game_solution[3], game_solution[1]>>
    IN  {right, CHOOSE a \in Suggestions : Range(a) \cap Range(right) = {}}

\* the iteration orders of update_from_suggestion that can differ in effect
OrdersForwarded(suggesting_player, suggestion, card) ==
    LET responding_player == Responder(suggesting_player, suggestion)
    IN  IF ~Told(suggesting_player, responding_player) THEN {suggestion}
        ELSE IF Seen(suggesting_player, card) # NoCard THEN {suggestion}
        ELSE IF responding_player = None THEN Orders(suggestion)
        ELSE OrdersRead(suggestion, Passed(suggesting_player, responding_player))

NextPlay ==
    \/ \E suggesting_player \in Players, suggestion \in Suggestions :
           \E card \in Shown(suggesting_player, suggestion) :
               ProcessSuggestion(suggesting_player, suggestion, card)
    \/ \E suggesting_player \in Players, suggestion \in Suggestions :
           \E card \in Shown(suggesting_player, suggestion) :
               \E order \in OrdersForwarded(suggesting_player, suggestion, card) :
                   ProcessSuggestionForwarded(suggesting_player, suggestion, card,
                                              order)
    \/ \E accusing_player \in Players, accusation \in Accusations :
           ProcessAccusation(accusing_player, accusation[1], accusation[2],
                             accusation[3])

SpecPlay == InitPlay /\ [][NextPlay]_vars

(***************************************************************************)
(* Accusations: process_accusation tells the players through               *)
(* update_knowledge_from_accusation, which leaves the knowledge base       *)
(* alone; update_knowledge_from_failed_accusation is what a                *)
(* SmarterAIPlayer offers for an accusation that failed.                   *)
(***************************************************************************)
\* self.kb.record_atleast_one_not_in_envelope(cards): ImprovedKnowledgeBase
\* has no such method, so the call raises AttributeError; an eliminated
\* player returns before it
update_knowledge_from_failed_accusation(accusing_player, accusation) ==
    /\ calls < MaxTurns
    /\ outcome = "returned"
    /\ calls' = calls + 1
    /\ outcome' = IF player_id \in eliminated THEN "returned" ELSE "raised"
    /\ UNCHANGED <<poss, atleast_one, changed, solution_known, solution>>
    /\ UNCHANGED <<recorded, refuted, env_eliminated, passes, event>>
    /\ UNCHANGED gameVars
    /\ UNCHANGED <<callVars, sideVars>>

NextAccusation ==
    \/ \E accusing_player \in Players, accusation \in Accusations :
           ProcessAccusation(accusing_player, accusation[1], accusation[2],
                             accusation[3])
    \/ \E accusing_player \in Players, accusation \in Accusations :
           update_knowledge_from_failed_accusation(
               accusing_player, <<accusation[3], accusation[1], accusation[2]>>)

SpecAccusation == InitPlay /\ [][NextAccusation]_vars

(***************************************************************************)
(* Queries                                                                 *)
(***************************************************************************)
possible_holders(card) == possible_holders_of(poss, card)

\* the cards of one category that can still be in the envelope
envelope_candidates(card_list) == {c \in Range(card_list) : poss[c][ENVELOPE]}

\* the cards of one category whose only possible holder is the envelope
EnvelopeOnlyCards(card_list) ==
    {c \in Range(card_list) : possible_holders(c) = {ENVELOPE}}

\* each category has exactly one card whose only possible holder is the envelope
Determined == \A k \in 1..Len(categories) : Cardinality(EnvelopeOnlyCards(categories[k])) = 1

\* the cards of a constraint that are still possible for its holder
StillPossible(con) == {c \in con.cards : poss[c][con.holder]}

\* the number of true entries of the matrix plus the number of stored constraints
Measure ==
    Cardinality({ch \in Cards \X Holders : poss[ch[1]][ch[2]]}) + Len(atleast_one)

\* the holder a card was dealt to
TrueHolder(card) ==
    IF card \in Range(game_solution) THEN ENVELOPE
    ELSE CHOOSE p \in Players : card \in Hand(p)

(***************************************************************************)
(* C1.  Soundness under real play: the true holder of every card is still  *)
(* a possible holder, a card of the owner's hand has the owner as its only *)
(* possible holder, and a solution reported as known is the envelope.      *)
(***************************************************************************)
C1_SoundUnderRealPlay ==
    /\ \A c \in Cards : TrueHolder(c) \in possible_holders(c)
    /\ \A c \in Hand(player_id) : possible_holders(c) = {player_id}
    /\ solution_known =>
           solution = <<game_solution[2], game_solution[3], game_solution[1]>>

(***************************************************************************)
(* C2.  Monotonic narrowing: no step of any mutator makes a false entry    *)
(* of the possibility matrix true again.                                   *)
(***************************************************************************)
C2_MatrixNeverGrows ==
    [][\A c \in Cards, h \in Holders : poss'[c][h] => poss[c][h]]_vars

(***************************************************************************)
(* C3.  Invariant I1: every card has at least one possible holder.         *)
(***************************************************************************)
C3_EveryCardHasAHolder == \A c \in Cards : possible_holders(c) # {}

(***************************************************************************)
(* C4.  Contradictions are surfaced: a call that leaves a card with no     *)
(* possible holder, or a recorded constraint with no card left possible    *)
(* for its holder, does not return normally.                               *)
(***************************************************************************)
C4_ContradictionReported ==
    /\ (\E c \in Cards : possible_holders(c) = {}) => outcome # "returned"
    /\ (\E con \in recorded : StillPossible(con) = {}) => outcome # "returned"

(***************************************************************************)
(* C5.  Disjunction discharge: for every recorded (holder, cards), when    *)
(* exactly one of the cards is still possible for the holder, that card    *)
(* is assigned to the holder, is no envelope candidate, and the            *)
(* constraint is no longer stored.                                         *)
(***************************************************************************)
C5_DisjunctionDischarged ==
    \A con \in recorded :
        Cardinality(StillPossible(con)) = 1 =>
            /\ \A c \in StillPossible(con) :
                   /\ possible_holders(c) = {con.holder}
                   /\ \A k \in 1..Len(categories) : c \notin envelope_candidates(categories[k])
            /\ \A i \in 1..Len(atleast_one) : atleast_one[i] # con

(***************************************************************************)
(* C6.  Recorded at-least-one facts stay honoured: the responder of every  *)
(* refutation with an unknown card is still a possible holder of one of    *)
(* the three suggested cards.                                              *)
(***************************************************************************)
C6_RefutationHonoured == \A con \in refuted : StillPossible(con) # {}

(***************************************************************************)
(* C7.  No deferred inference: between calls the changed flag is clear,    *)
(* no stored constraint is forced or already satisfied, no category has a  *)
(* single envelope candidate that is not assigned to the envelope, and     *)
(* one more pass of the loop changes nothing.                              *)
(***************************************************************************)
C7_NoDeferredInference ==
    /\ ~changed
    /\ \A i \in 1..Len(atleast_one) :
           /\ Cardinality(StillPossible(atleast_one[i])) # 1
           /\ \A c \in atleast_one[i].cards :
                  ~_is_assigned_to(poss, c, atleast_one[i].holder)
    /\ \A k \in 1..Len(categories) :
           Cardinality(envelope_candidates(categories[k])) = 1
               => envelope_candidates(categories[k]) = EnvelopeOnlyCards(categories[k])
    /\ PropagatePass(KB) = KB

\* a call has returned after the engine discharged a constraint and the
\* store still holds another one
C7_Witness ==
    /\ calls > 0
    /\ ~changed
    /\ Len(atleast_one) > 0
    /\ \E con \in recorded :
           /\ \A i \in 1..Len(atleast_one) : atleast_one[i] # con
           /\ \E c \in con.cards : possible_holders(c) = {con.holder}

(***************************************************************************)
(* C8.  Propagation terminates: a call that entered the loop leaves it,    *)
(* and every pass that sets changed again has removed a true entry or a    *)
(* stored constraint.                                                      *)
(***************************************************************************)
C8_PropagationTerminates ==
    /\ changed ~> ~changed
    /\ [][(changed /\ changed') => Measure' < Measure]_vars

\* a single record_atleast_one returned after the loop ran twice: the first
\* pass forced the card on the holder and dropped the constraint, the second
\* found nothing to do
C8_Witness ==
    /\ ~changed
    /\ calls = 1
    /\ passes >= 2
    /\ atleast_one = <<>>
    /\ \E con \in recorded : \E c \in con.cards : possible_holders(c) = {con.holder}

(***************************************************************************)
(* C9.  Category exclusivity convergence: when eliminate(card, ENVELOPE)   *)
(* has been called for all cards of a category but one, the envelope is    *)
(* the only possible holder of the remaining card, whatever was called     *)
(* for the other categories.                                               *)
(***************************************************************************)
C9_ExclusivityConverges ==
    \A k \in 1..Len(categories) :
        \A r \in Range(categories[k]) :
            env_eliminated \cap Range(categories[k]) = Range(categories[k]) \ {r}
                => possible_holders(r) = {ENVELOPE}

\* the suspects have converged while the weapons are still open and a room
\* has lost a player
C9_Witness ==
    /\ \E r \in Suspects : /\ env_eliminated \cap Suspects = Suspects \ {r}
                           /\ possible_holders(r) = {ENVELOPE}
    /\ env_eliminated \cap Weapons = {}
    /\ \A w \in Weapons : ENVELOPE \in possible_holders(w)
    /\ \E c \in Rooms, p \in Players : p \notin possible_holders(c)

(***************************************************************************)
(* C10.  is_solution_known() is true if and only if each of the three      *)
(* categories has exactly one card whose only possible holder is ENVELOPE. *)
(***************************************************************************)
C10_SolutionKnownIff == solution_known <=> Determined

\* is_solution_known / get_solution
is_solution_known == solution_known
get_solution == IF solution_known THEN solution ELSE NoSolution

\* card_owner(card): the definite owner, or None
card_owner(card) ==
    IF Cardinality(possible_holders(card)) = 1
    THEN CHOOSE h \in possible_holders(card) : TRUE
    ELSE None

\* the last call was given a card or a holder outside the vocabulary
UnknownName ==
    /\ event # NoEvent
    /\ \/ UnknownCard \in event.cards
       \/ event.holder \notin Holders

\* the last call of update_from_suggestion had no responding player
Unrefuted ==
    /\ event # NoEvent
    /\ event.responding_player_id = None
    /\ event.shown_card = NoCard

\* the last call of update_from_suggestion named a responder and no card
RefutedUnseen ==
    /\ event # NoEvent
    /\ event.responding_player_id # None
    /\ event.shown_card = NoCard

\* the last call of update_from_suggestion named the card that was shown
RefutedSeen == event # NoEvent /\ event.shown_card # NoCard

\* envelope_candidates() of the category a card belongs to
CandidatesWith(card) ==
    LET k == CHOOSE i \in 1..Len(categories) : card \in Range(categories[i])
    IN  envelope_candidates(categories[k])

(***************************************************************************)
(* C11.  Solution knowledge is terminal: no suggestion event makes         *)
(* is_solution_known() false once it was true.                             *)
(***************************************************************************)
C11_SolutionKnownIsTerminal == [][is_solution_known => is_solution_known']_vars

\* the solution was known, a later event took a card from the envelope, and
\* the flag is still set
C11_Witness == calls = MaxEvents /\ is_solution_known /\ ~Determined

(***************************************************************************)
(* C12.  Solution discovery by elimination: from a fresh knowledge base,   *)
(* after calls of eliminate(card, ENVELOPE) alone on distinct cards that   *)
(* leave a card in every category, the solution is known exactly when one  *)
(* card is left in each category, and it is then those three cards as      *)
(* (suspect, weapon, room).                                                *)
(***************************************************************************)
Remaining(card_list) == Range(card_list) \ env_eliminated

C12_SolutionByElimination ==
    (/\ calls = Cardinality(env_eliminated)
     /\ \A k \in 1..Len(categories) : Remaining(categories[k]) # {})
        => /\ is_solution_known
                <=> \A k \in 1..Len(categories) : Cardinality(Remaining(categories[k])) = 1
           /\ is_solution_known =>
                  /\ Len(get_solution) = Len(categories)
                  /\ \A k \in 1..Len(categories) : Remaining(categories[k]) = {get_solution[k]}

\* the last of the eliminations has been made
C12_Witness ==
    /\ calls = Cardinality(env_eliminated)
    /\ \A k \in 1..Len(categories) : Cardinality(Remaining(categories[k])) = 1
    /\ is_solution_known

(***************************************************************************)
(* C13.  Unrefuted suggestion: after update_from_suggestion with no        *)
(* responding player, each suggested card has the envelope as its only     *)
(* possible holder and is the only envelope candidate of its category,     *)
(* the solution is known and it is the three suggested cards.              *)
(***************************************************************************)
C13_UnrefutedGivesSolution ==
    Unrefuted =>
        /\ \A c \in Range(event.suggestion) :
               /\ possible_holders(c) = {ENVELOPE}
               /\ CandidatesWith(c) = {c}
        /\ is_solution_known
        /\ get_solution = event.suggestion

(***************************************************************************)
(* C14.  Seeding the hand: after initialize_with_hand, every card of the   *)
(* hand has its owner as only possible holder and is no envelope           *)
(* candidate; every other card is still an envelope candidate, with every  *)
(* holder still possible unless it is the last candidate of its category,  *)
(* which has the envelope as its only possible holder.                     *)
(***************************************************************************)
C14_HandSeeded ==
    player_id # None =>
        /\ \A c \in Hand(player_id) :
               /\ possible_holders(c) = {player_id}
               /\ card_owner(c) = player_id
               /\ c \notin CandidatesWith(c)
        /\ \A c \in Cards \ Hand(player_id) :
               /\ c \in CandidatesWith(c)
               /\ possible_holders(c) = IF CandidatesWith(c) = {c} THEN {ENVELOPE} ELSE Holders

\* a hand of several cards was seeded and left one weapon for the envelope
C14_Witness ==
    /\ player_id # None
    /\ Cardinality(Hand(player_id)) >= 3
    /\ \E w \in Weapons \ Hand(player_id) : CandidatesWith(w) = {w}
    /\ \E c \in Cards \ Hand(player_id) : possible_holders(c) = Holders

(***************************************************************************)
(* C15.  Unknown-card refutation: after update_from_suggestion with a      *)
(* responder R and no card seen, (a) no player strictly between the        *)
(* suggester and R in cyclic order is a possible holder of a suggested     *)
(* card, (b) the constraint (R, the three cards) is in the store unless    *)
(* one of the three cards is assigned to R, and (c) a player outside that  *)
(* interval stops being a possible holder of a suggested card only when    *)
(* propagation assigned the card.                                          *)
(***************************************************************************)
C15_PassedPlayersExcluded ==
    \A p \in Passed(event.suggesting_player_id, event.responding_player_id) :
        \A c \in Range(event.suggestion) : p \notin possible_holders(c)

C15_ConstraintRecorded ==
    \/ \E i \in 1..Len(atleast_one) :
           atleast_one[i] = [holder |-> event.responding_player_id,
                             cards |-> Range(event.suggestion)]
    \/ \E c \in Range(event.suggestion) :
           possible_holders(c) = {event.responding_player_id}

C15_OthersKept ==
    \A q \in Holders \ Passed(event.suggesting_player_id, event.responding_player_id)' :
        \A c \in Range(event.suggestion)' :
            (poss[c][q] /\ ~poss'[c][q]) => Cardinality(possible_holders(c)') <= 1

C15_UnknownCardRefutation ==
    [][(calls' = calls + 1 /\ RefutedUnseen')
          => /\ C15_PassedPlayersExcluded'
             /\ C15_ConstraintRecorded'
             /\ C15_OthersKept]_vars

(***************************************************************************)
(* C16.  Known-card refutation: after update_from_suggestion with a card   *)
(* the observer saw, the responder is the only possible holder of that     *)
(* card and the card is no envelope candidate; every other card that had   *)
(* a player as its definite owner before the call keeps its row, so cards  *)
(* revealed earlier stay with their revealers.                             *)
(***************************************************************************)
C16_KnownCardRefutation ==
    [][(calls' = calls + 1 /\ RefutedSeen')
          => /\ possible_holders(event.shown_card)' = {event.responding_player_id}'
             /\ event'.shown_card \notin CandidatesWith(event.shown_card)'
             /\ \A d \in Cards \ {event'.shown_card} :
                    card_owner(d) \in Players => poss'[d] = poss[d]]_vars

\* two cards were shown, one after the other, and each is with its revealer
C16_Witness ==
    /\ calls = 2
    /\ RefutedSeen
    /\ recorded = {}
    /\ card_owner(event.shown_card) = event.responding_player_id
    /\ \E d \in Cards \ {event.shown_card} :
           card_owner(d) \in Players \ {event.responding_player_id}

(***************************************************************************)
(* C17.  Idempotence of assign: a call of set_holder with a card and a     *)
(* holder that an earlier call of set_holder was given leaves the          *)
(* possibility matrix, the constraint store and the solution state as      *)
(* they were.                                                              *)
(***************************************************************************)
C17_SetHolderIdempotent ==
    [][\A card \in Cards, holder \in Holders :
           (<<card, holder>> \in assigned /\ SetHolder(card, holder))
               => UNCHANGED <<poss, atleast_one, solution_known, solution>>]_vars

(***************************************************************************)
(* C18.  Soundness of single-possibility: when a card has a single         *)
(* possible holder, no earlier call of eliminate named the card with that  *)
(* holder and no earlier call of set_holder named the card with another    *)
(* holder.                                                                 *)
(***************************************************************************)
C18_SingleHolderIsConsistent ==
    \A card \in Cards :
        card_owner(card) # None =>
            /\ <<card, card_owner(card)>> \notin excluded
            /\ \A other \in Holders \ {card_owner(card)} : <<card, other>> \notin assigned

(***************************************************************************)
(* C19.  Fail fast on unknown names: a call of set_holder, eliminate,      *)
(* record_atleast_one or possible_holders with a card or a holder outside  *)
(* the vocabulary raises and leaves the engine state unchanged.            *)
(***************************************************************************)
C19_UnknownNamesRaise ==
    [][(calls' = calls + 1 /\ UnknownName')
          => /\ outcome' = "raised"
             /\ UNCHANGED <<poss, atleast_one, changed, solution_known, solution>>]_vars

(***************************************************************************)
(* C20.  An incorrect accusation is weak evidence, not an error: when an   *)
(* accusation is processed, or a failed one is recorded with the player    *)
(* that owns the knowledge base, the call returns normally and the         *)
(* possibility matrix, the constraint store and the solution state are     *)
(* as they were.                                                           *)
(***************************************************************************)
C20_FailedAccusationIsHarmless ==
    [][/\ outcome' = "returned"
       /\ UNCHANGED <<poss, atleast_one, changed, solution_known, solution>>]_vars

(***************************************************************************)
(* PlayerKnowledge: the event log every Player keeps, with the sets of     *)
(* cards known held, known not held, and still possible in the envelope.   *)
(***************************************************************************)
PK == [events |-> events, my_cards |-> my_cards, player_cards |-> player_cards,
       player_not_cards |-> player_not_cards,
       possible_solution |-> possible_solution]

\* the key of self.categories a card is listed under
category_of(card) ==
    IF card \in Suspects THEN "suspects"
    ELSE IF card \in Weapons THEN "weapons"
    ELSE "rooms"

NoTriple == <<>>

\* an entry of self.events
Event(type, by, triple, responding_player, revealed_card, is_correct) ==
    [type |-> type, by |-> by, triple |-> triple,
     responding_player |-> responding_player,
     revealed_card |-> revealed_card, is_correct |-> is_correct]

_remove_from_solution(K, card_name) ==
    [K EXCEPT !.possible_solution[category_of(card_name)] = @ \ {card_name}]

add_card_to_hand(K, owner, card_name) ==
    LET seen == [K EXCEPT
                   !.my_cards = @ \cup {card_name},
                   !.player_cards[owner] = @ \cup {card_name},
                   !.events = Append(@, Event("card_seen", owner,
                                               <<card_name>>, None, NoCard,
                                               FALSE)),
                   !.player_not_cards =
                       [pid \in Players |->
                           IF pid # owner THEN @[pid] \cup {card_name}
                           ELSE @[pid]]]
    IN  _remove_from_solution(seen, card_name)

\* Player.initialize_knowledge: a new PlayerKnowledge, then the hand card by
\* card
RECURSIVE AddHand(_, _, _, _)
AddHand(K, owner, hand, i) ==
    IF i > Len(hand) THEN K
    ELSE AddHand(add_card_to_hand(K, owner, hand[i]), owner, hand, i + 1)

initialize_knowledge(owner, hand) == AddHand(NewKnowledge, owner, hand, 1)

\* the players the while loop of record_suggestion walks over: from the one
\* after the suggester up to the responder
Skipped(suggesting_player, responding_player) ==
    {p \in Players :
        /\ p # responding_player
        /\ (p - suggesting_player - 1) % NumPlayers
             < (responding_player - suggesting_player - 1) % NumPlayers}

\* the three cards are added to the cards these players do not hold
NotHeldBy(K, pids, triple) ==
    [K EXCEPT !.player_not_cards =
        [pid \in Players |->
            IF pid \in pids THEN @[pid] \cup Range(triple) ELSE @[pid]]]

\* suggestion is (room, suspect, weapon)
record_suggestion(K, owner, suggesting_player, suggestion, responding_player, revealed_card) ==
    LET logged == [K EXCEPT !.events =
                      Append(@, Event("suggestion", suggesting_player,
                                      suggestion, responding_player,
                                      revealed_card, FALSE))]
    IN  IF responding_player = None
        THEN NotHeldBy(logged, Players, suggestion)
        ELSE IF suggesting_player = owner /\ revealed_card # NoCard
        THEN NotHeldBy(
                 _remove_from_solution(
                     [logged EXCEPT !.player_cards[responding_player] =
                                        @ \cup {revealed_card}],
                     revealed_card),
                 Skipped(suggesting_player, responding_player), suggestion)
        ELSE IF responding_player = owner /\ revealed_card # NoCard
        THEN logged
        ELSE NotHeldBy(logged, Skipped(suggesting_player, responding_player),
                       suggestion)

\* accusation is (room, suspect, weapon)
record_accusation(K, accusing_player, accusation, is_correct) ==
    LET logged == [K EXCEPT !.events =
                      Append(@, Event("accusation", accusing_player,
                                      accusation, None, NoCard, is_correct))]
    IN  IF is_correct
        THEN [logged EXCEPT !.possible_solution =
                 [rooms |-> {accusation[1]}, suspects |-> {accusation[2]},
                  weapons |-> {accusation[3]}]]
        ELSE logged

\* Rule 1 of apply_deductions: a card known to be held is no candidate
KnownHeldRemoved(K) ==
    LET held == UNION {K.player_cards[p] : p \in Players}
    IN  [K EXCEPT !.possible_solution =
            [category \in DOMAIN @ |-> @[category] \ held]]

\* the refuted suggestions of the log
RefutedEvents(K) ==
    {i \in 1..Len(K.events) :
        /\ K.events[i].type = "suggestion"
        /\ K.events[i].responding_player # None}

\* the card deduced as shown when not_cards names two of the three cards
ThirdOf(triple, not_cards) ==
    IF Cardinality(Range(triple) \cap not_cards) = 2
    THEN Range(triple) \ not_cards
    ELSE {}

\* the <<responder, card>> a rule deduces; deduced cards are added to the
\* responder's cards and taken out of the candidates
Deduce(K, found) ==
    [K EXCEPT
       !.player_cards =
           [p \in Players |-> @[p] \cup {f[2] : f \in {g \in found : g[1] = p}}],
       !.possible_solution =
           [category \in DOMAIN @ |-> @[category] \ {f[2] : f \in found}]]

\* Rule 3 of apply_deductions
_deduce_shown_cards_from_skipped_players(K) ==
    Deduce(K, UNION {
        {<<K.events[i].responding_player, c>> :
            c \in UNION {ThirdOf(K.events[i].triple, K.player_not_cards[p]) :
                           p \in Skipped(K.events[i].by,
                                         K.events[i].responding_player)}} :
        i \in RefutedEvents(K)})

\* Rule 5 of apply_deductions
_deduce_shown_cards_from_known_negatives(K) ==
    Deduce(K, UNION {
        {<<K.events[i].responding_player, c>> :
            c \in ThirdOf(K.events[i].triple,
                          K.player_not_cards[K.events[i].responding_player])} :
        i \in RefutedEvents(K)})

\* Rules 2, 4 and 6 change nothing
apply_deductions(K) ==
    _deduce_shown_cards_from_known_negatives(
        _deduce_shown_cards_from_skipped_players(KnownHeldRemoved(K)))

\* PlayerKnowledge.is_solution_known
PlayerKnowledge_is_solution_known ==
    /\ Cardinality(possible_solution["suspects"]) = 1
    /\ Cardinality(possible_solution["weapons"]) = 1
    /\ Cardinality(possible_solution["rooms"]) = 1

\* random.choice of each category: the envelopes explored. Neither
\* PlayerKnowledge nor the game logic compares names, so the names within a
\* category are interchangeable
Envelopes == {<<"S2", "W2", "R1">>}

\* a game is dealt and the player initializes their knowledge from the hand;
\* the order of the hand only orders the card_seen entries of the log, which
\* no rule reads, so one order is explored
InitKnowledge ==
    /\ \E envelope \in Envelopes, me \in Players :
         \E deal \in Deals(Range(envelope)) :
           \E hand \in {CHOOSE h \in SeqsOf(deal[me]) : TRUE} :
             /\ hands = deal
             /\ game_solution = <<envelope[3], envelope[1], envelope[2]>>
             /\ player_id = me
             /\ Keeps(initialize_knowledge(me, hand))
    /\ knowledge = TRUE
    /\ eliminated = {}
    /\ Holds(NewKB)
    /\ NoCalls
    /\ knowledge_base = NewKnowledgeBase
    /\ NewGame
    /\ player_class = "Player"
    /\ NoStrategy
    /\ NoSheet

\* Game.check_accusation: accusation and game.solution are (room, suspect,
\* weapon)
check_accusation(accusation) ==
    /\ accusation[1] = game_solution[1]
    /\ accusation[2] = game_solution[2]
    /\ accusation[3] = game_solution[3]

\* the entries of the log of one type
Logged(type) == {i \in 1..Len(events) : events[i].type = type}

\* the accusation the log holds as correct, if any
Confirmed == {events[i].triple : i \in {j \in Logged("accusation") : events[j].is_correct}}

Learn(K) ==
    /\ events' = K.events
    /\ my_cards' = K.my_cards
    /\ player_cards' = K.player_cards
    /\ player_not_cards' = K.player_not_cards
    /\ possible_solution' = K.possible_solution

\* the matrix engine and the game stay as they are
KnowledgeOnly ==
    /\ UNCHANGED <<poss, atleast_one, changed, solution_known, solution>>
    /\ UNCHANGED <<outcome, calls, recorded, refuted, env_eliminated, passes,
                   event>>
    /\ UNCHANGED gameVars
    /\ UNCHANGED callVars
    /\ UNCHANGED knowledge_base
    /\ UNCHANGED <<endVars, aiVars, score_sheet>>

\* the card process_suggestion passes as revealed_card to every player
RevealedToAll(p, suggesting_player, card) == card

\* the card process_suggestion passes as revealed_card to player p: the
\* suggester is passed the card, the responder and the observers None
RevealedTo(p, suggesting_player, card) ==
    IF p = suggesting_player THEN card ELSE NoCard

\* process_suggestion: the calls of update_knowledge_from_suggestion it makes
\* on player p, whose knowledge is not None, in the order it makes them
Updates(p, suggesting_player, suggestion, card) ==
    LET responding_player == Responder(suggesting_player, suggestion)
        call == [responding_player |-> responding_player,
                 revealed_card |-> RevealedTo(p, suggesting_player, card)]
    IN  IF responding_player # None
        THEN (IF p = suggesting_player THEN <<call>> ELSE <<>>)
             \o (IF p = responding_player THEN <<call>> ELSE <<>>)
             \o (IF p # suggesting_player /\ p # responding_player
                 THEN <<call>> ELSE <<>>)
        ELSE <<call>>

\* Player.update_knowledge_from_suggestion, for each call in turn:
\* record_suggestion, then apply_deductions
RECURSIVE ApplyUpdates(_, _, _, _, _)
ApplyUpdates(K, owner, suggesting_player, told, updates) ==
    IF updates = <<>>
    THEN K
    ELSE ApplyUpdates(
             apply_deductions(record_suggestion(
                 K, owner, suggesting_player, told,
                 Head(updates).responding_player, Head(updates).revealed_card)),
             owner, suggesting_player, told, Tail(updates))

\* the knowledge of player owner after process_suggestion
Informed(K, owner, suggesting_player, suggestion, card) ==
    ApplyUpdates(K, owner, suggesting_player,
                 <<suggestion[3], suggestion[1], suggestion[2]>>,
                 Updates(owner, suggesting_player, suggestion, card))

\* Player.update_knowledge_from_suggestion, as process_suggestion calls it:
\* the suggester is told the card, everyone else is not. The log is followed
\* up to its first accusation
UpdateKnowledgeFromSuggestion(suggesting_player, suggestion, card) ==
    /\ KnowledgeOnly
    /\ Cardinality(Logged("suggestion")) < MaxSuggested
    /\ Logged("accusation") = {}
    /\ card \in Shown(suggesting_player, suggestion)
    /\ \E after \in {Informed(PK, player_id, suggesting_player, suggestion, card)} :
           Learn(after)

\* PlayerKnowledge.record_accusation, given the verdict on the accusation
RecordAccusation(accusing_player, accusation) ==
    /\ KnowledgeOnly
    /\ Cardinality(Logged("accusation")) < MaxAccused
    /\ \E after \in {record_accusation(PK, accusing_player, accusation,
                                       check_accusation(accusation))} :
           Learn(after)

\* PlayerKnowledge.apply_deductions
ApplyDeductions ==
    /\ KnowledgeOnly
    /\ \E after \in {apply_deductions(PK)} : Learn(after)

\* the accusations tried, as (room, suspect, weapon)
AccusationsTold == {<<a[3], a[1], a[2]>> : a \in Accusations}

\* record_accusation only logs who accused: one accuser is explored
Accusers == {(player_id + 1) % NumPlayers}

NextKnowledge ==
    \/ \E suggesting_player \in Players, suggestion \in Suggestions :
           \E card \in Shown(suggesting_player, suggestion) :
               UpdateKnowledgeFromSuggestion(suggesting_player, suggestion, card)
    \/ \E accusing_player \in Accusers, accusation \in AccusationsTold :
           RecordAccusation(accusing_player, accusation)
    \/ ApplyDeductions

SpecKnowledge == InitKnowledge /\ [][NextKnowledge]_vars

\* C21: once an accusation has been recorded as correct, the accused cards are
\* the only solution candidates of their categories and is_solution_known()
\* holds, also after every later call of apply_deductions.
C21_CorrectAccusationConfirms ==
    \A accusation \in Confirmed :
        /\ possible_solution = [rooms |-> {accusation[1]},
                                suspects |-> {accusation[2]},
                                weapons |-> {accusation[3]}]
        /\ PlayerKnowledge_is_solution_known

(***************************************************************************)
(* KnowledgeBase, the set-based engine, given the same calls as the        *)
(* matrix engine.                                                          *)
(***************************************************************************)
\* the three envelope sets hold one candidate each
OneCandidateEach(B) ==
    /\ Cardinality(B.envelope_suspects) = 1
    /\ Cardinality(B.envelope_weapons) = 1
    /\ Cardinality(B.envelope_rooms) = 1

KnowledgeBase__update_solution(B) ==
    [B EXCEPT !.solution = <<CHOOSE c \in B.envelope_suspects : TRUE,
                             CHOOSE c \in B.envelope_weapons : TRUE,
                             CHOOSE c \in B.envelope_rooms : TRUE>>,
              !.solution_known = TRUE]

KnowledgeBase__propagate(B) ==
    IF OneCandidateEach(B) THEN KnowledgeBase__update_solution(B) ELSE B

_remove_from_envelope_candidates(B, card) ==
    LET removed ==
            IF card \in B.envelope_suspects
            THEN [B EXCEPT !.envelope_suspects = @ \ {card}]
            ELSE IF card \in B.envelope_weapons
            THEN [B EXCEPT !.envelope_weapons = @ \ {card}]
            ELSE IF card \in B.envelope_rooms
            THEN [B EXCEPT !.envelope_rooms = @ \ {card}]
            ELSE B
    IN  IF removed # B /\ OneCandidateEach(removed)
        THEN KnowledgeBase__update_solution(removed)
        ELSE removed

KnowledgeBase_set_holder(B, card, holder) ==
    LET only == [B EXCEPT !.possibility_matrix[card] = {holder}]
    IN  KnowledgeBase__propagate(
            IF holder = ENVELOPE
            THEN IF card \in Suspects
                 THEN [only EXCEPT !.envelope_suspects = {card}]
                 ELSE IF card \in Weapons
                 THEN [only EXCEPT !.envelope_weapons = {card}]
                 ELSE [only EXCEPT !.envelope_rooms = {card}]
            ELSE _remove_from_envelope_candidates(only, card))

KnowledgeBase_eliminate(B, card, holder) ==
    IF holder \notin B.possibility_matrix[card]
    THEN B
    ELSE LET less == [B EXCEPT !.possibility_matrix[card] = @ \ {holder}]
             out == IF holder = ENVELOPE
                    THEN _remove_from_envelope_candidates(less, card)
                    ELSE less
             left == out.possibility_matrix[card]
         IN  KnowledgeBase__propagate(
                 IF Cardinality(left) = 1 /\ left # {ENVELOPE}
                 THEN _remove_from_envelope_candidates(out, card)
                 ELSE out)

\* the loop over players_between: suspect, weapon and room are eliminated for
\* each, in that order
RECURSIVE EliminateBetween(_, _, _, _)
EliminateBetween(B, current_idx, end_idx, suggestion) ==
    IF current_idx = end_idx
    THEN B
    ELSE EliminateBetween(
             KnowledgeBase_eliminate(
                 KnowledgeBase_eliminate(
                     KnowledgeBase_eliminate(B, suggestion[1], current_idx),
                     suggestion[2], current_idx),
                 suggestion[3], current_idx),
             (current_idx + 1) % NumPlayers, end_idx, suggestion)

KnowledgeBase_update_from_suggestion(B, suggesting_player_id, suggestion, responding_player_id, shown_card) ==
    IF shown_card # NoCard
    THEN KnowledgeBase_set_holder(B, shown_card, responding_player_id)
    ELSE IF responding_player_id # None
    THEN EliminateBetween(B, (suggesting_player_id + 1) % NumPlayers,
                          responding_player_id, suggestion)
    ELSE KnowledgeBase_set_holder(
             KnowledgeBase_set_holder(
                 KnowledgeBase_set_holder(B, suggestion[1], ENVELOPE),
                 suggestion[2], ENVELOPE),
             suggestion[3], ENVELOPE)

\* one call, made on both engines
Both(K, B) ==
    /\ calls < MaxPaired
    /\ calls' = calls + 1
    /\ outcome' = "returned"
    /\ Install(K)
    /\ knowledge_base' = B
    /\ UNCHANGED <<recorded, refuted, env_eliminated, passes, event>>
    /\ UNCHANGED gameVars
    /\ UNCHANGED callVars
    /\ UNCHANGED knowledgeVars
    /\ UNCHANGED <<endVars, aiVars, score_sheet>>

BothSetHolder(card, holder) ==
    Both(set_holder(KB, card, holder),
         KnowledgeBase_set_holder(knowledge_base, card, holder))

BothEliminate(card, holder) ==
    Both(eliminate(KB, card, holder),
         KnowledgeBase_eliminate(knowledge_base, card, holder))

BothUpdateFromSuggestion(suggesting_player_id, suggestion, responding_player_id, shown_card, order) ==
    /\ responding_player_id # suggesting_player_id
    /\ Both(update_from_suggestion(KB, suggesting_player_id, suggestion,
                                   responding_player_id, shown_card, order),
            KnowledgeBase_update_from_suggestion(
                knowledge_base, suggesting_player_id, suggestion,
                responding_player_id, shown_card))

\* the cards a responder can have shown: none when nobody responded
ShownTo(suggestion, responding_player_id) ==
    IF responding_player_id = None THEN {NoCard}
    ELSE {NoCard} \cup Range(suggestion)

\* the iteration orders of cards_in_suggestion that can differ in effect
OrdersBoth(suggesting_player_id, suggestion, responding_player_id, shown_card) ==
    IF shown_card # NoCard THEN {suggestion}
    ELSE IF responding_player_id = None THEN Orders(suggestion)
    ELSE OrdersRead(suggestion,
                    Passed(suggesting_player_id, responding_player_id))

NextBoth ==
    \/ \E card \in Cards, holder \in Holders : BothSetHolder(card, holder)
    \/ \E card \in Cards, holder \in Holders : BothEliminate(card, holder)
    \/ \E suggesting_player_id \in Players, suggestion \in Suggestions :
         \E responding_player_id \in Players \cup {None} :
           \E shown_card \in ShownTo(suggestion, responding_player_id) :
             \E order \in OrdersBoth(suggesting_player_id, suggestion,
                                     responding_player_id, shown_card) :
               BothUpdateFromSuggestion(suggesting_player_id, suggestion,
                                        responding_player_id, shown_card, order)

SpecBoth == Init /\ [][NextBoth]_vars

\* C22: after the same calls on both engines, the matrix engine has concluded
\* every exclusion the set-based engine has: its possible holders of each card
\* and its envelope candidates of each category are subsets of the set-based
\* engine's, and it knows the solution whenever the set-based engine does.
C22_MatrixSubsumesSets ==
    /\ \A card \in Cards :
           possible_holders(card) \subseteq knowledge_base.possibility_matrix[card]
    /\ envelope_candidates(character_names) \subseteq knowledge_base.envelope_suspects
    /\ envelope_candidates(weapon_names) \subseteq knowledge_base.envelope_weapons
    /\ envelope_candidates(room_names) \subseteq knowledge_base.envelope_rooms
    /\ knowledge_base.solution_known => solution_known

(***************************************************************************)
(* The game: turns are taken in the order of game.players; a turn is a     *)
(* suggestion resolved by process_suggestion, an accusation resolved by    *)
(* process_accusation or by Game.handle_accusation, or is skipped.  The    *)
(* players are plain Players whose knowledge attribute is None.            *)
(***************************************************************************)
InitGame ==
    /\ \E envelope \in Envelopes :
         \E deal \in Deals(Range(envelope)) :
             /\ hands = deal
             /\ game_solution = <<envelope[3], envelope[1], envelope[2]>>
    /\ eliminated = {}
    /\ player_id = None
    /\ knowledge = FALSE
    /\ Holds(NewKB)
    /\ NoHistory

\* the while loop of process_suggestion: who is asked, and who responds
RECURSIVE AskFrom(_, _, _, _, _)
AskFrom(current_idx, start_idx, suggesting_player, suggestion, asked) ==
    LET next_idx == (current_idx + 1) % NumPlayers
        asks == current_idx # suggesting_player /\ ~Skips(current_idx)
        now == IF asks THEN Append(asked, current_idx) ELSE asked
    IN  IF asks /\ respond_to_suggestion(current_idx, suggestion) # {}
        THEN [asked |-> now, responding_player |-> current_idx]
        ELSE IF next_idx = start_idx
        THEN [asked |-> now, responding_player |-> None]
        ELSE AskFrom(next_idx, start_idx, suggesting_player, suggestion, now)

\* start_idx is the index after the suggester's id
Round(suggesting_player, suggestion) ==
    AskFrom((suggesting_player + 1) % NumPlayers,
            (suggesting_player + 1) % NumPlayers, suggesting_player,
            suggestion, <<>>)

\* the cards the responder of the round may show, None when nobody responds
Revealed(suggesting_player, suggestion) ==
    LET responding_player == Round(suggesting_player, suggestion).responding_player
    IN  IF responding_player = None THEN {NoCard}
        ELSE respond_to_suggestion(responding_player, suggestion)

\* the turn of the current player, who is still in the game, ends
Turn ==
    /\ ~game_over
    /\ current_player_idx \notin eliminated
    /\ current_player_idx' = (current_player_idx + 1) % NumPlayers
    /\ UNCHANGED <<poss, atleast_one, changed, solution_known, solution>>
    /\ UNCHANGED <<outcome, calls, recorded, refuted, env_eliminated, passes,
                   event>>
    /\ UNCHANGED <<hands, game_solution, player_id, knowledge>>
    /\ UNCHANGED <<callVars, knowledgeVars, knowledge_base, aiVars, score_sheet>>

\* process_suggestion: no player keeps knowledge, so only the outcome remains
GameSuggestion(suggestion, revealed_card) ==
    LET round == Round(current_player_idx, suggestion)
    IN  /\ Turn
        /\ revealed_card \in Revealed(current_player_idx, suggestion)
        /\ suggested' = [suggesting_player |-> current_player_idx,
                         suggestion |-> suggestion,
                         asked |-> round.asked,
                         responding_player |-> round.responding_player,
                         revealed_card |-> revealed_card]
        /\ UNCHANGED <<eliminated, made_wrong_accusation, game_over, winner>>

\* handle_accusation_option: the accusation goes to process_accusation
Accuse(suspect, weapon, room) ==
    /\ Turn
    /\ process_accusation(current_player_idx, suspect, weapon, room)
    /\ UNCHANGED suggested

\* Game.handle_accusation: the accusation goes to Game.check_accusation
HandleAccusation(room, suspect, weapon) ==
    LET correct == check_accusation(<<room, suspect, weapon>>)
    IN  /\ Turn
        /\ game_over' = (correct \/ game_over)
        /\ winner' = IF correct THEN current_player_idx ELSE winner
        /\ eliminated' = IF correct THEN eliminated
                         ELSE eliminated \cup {current_player_idx}
        /\ UNCHANGED <<made_wrong_accusation, suggested>>

\* Game.play_game: the turn of an eliminated player is skipped
TurnSkipped ==
    /\ ~game_over
    /\ current_player_idx \in eliminated
    /\ current_player_idx' = (current_player_idx + 1) % NumPlayers
    /\ UNCHANGED <<poss, atleast_one, changed, solution_known, solution>>
    /\ UNCHANGED <<outcome, calls, recorded, refuted, env_eliminated, passes,
                   event>>
    /\ UNCHANGED gameVars
    /\ UNCHANGED <<callVars, knowledgeVars, knowledge_base, aiVars, score_sheet>>
    /\ UNCHANGED <<made_wrong_accusation, game_over, winner, suggested>>

NextGame ==
    \/ \E suggestion \in Suggestions :
           \E revealed_card \in Revealed(current_player_idx, suggestion) :
               GameSuggestion(suggestion, revealed_card)
    \/ \E accusation \in Suggestions :
           Accuse(accusation[1], accusation[2], accusation[3])
    \/ \E accusation \in Suggestions :
           HandleAccusation(accusation[3], accusation[1], accusation[2])
    \/ TurnSkipped

SpecGame == InitGame /\ [][NextGame]_vars

\* the cards of the envelope are the ones named
NamesEnvelope(suspect, weapon, room) ==
    {suspect, weapon, room} = Range(game_solution)

\* C23: process_accusation returns true exactly when the accused suspect,
\* weapon and room are the three cards of the envelope; the game is then over
\* and the accuser is the winner; otherwise it returns false and the winner
\* stays unset.
C23_AccusationVerdict ==
    [][\A accusation \in Suggestions :
          Accuse(accusation[1], accusation[2], accusation[3]) =>
              /\ Verdict(accusation[1], accusation[2], accusation[3])
                   <=> NamesEnvelope(accusation[1], accusation[2], accusation[3])
              /\ NamesEnvelope(accusation[1], accusation[2], accusation[3])
                   => (game_over' /\ winner' = current_player_idx)
              /\ ~NamesEnvelope(accusation[1], accusation[2], accusation[3])
                   => winner' = None]_vars

\* C24: process_accusation with a triple that is not the envelope marks the
\* accuser eliminated and made_wrong_accusation, changes the status of no
\* other player, and leaves the game on while some player is not eliminated.
C24_WrongAccusationEliminatesAccuser ==
    [][\A accusation \in Suggestions :
          (/\ Accuse(accusation[1], accusation[2], accusation[3])
           /\ ~NamesEnvelope(accusation[1], accusation[2], accusation[3])) =>
              /\ current_player_idx \in eliminated'
              /\ current_player_idx \in made_wrong_accusation'
              /\ \A p \in Players \ {current_player_idx} :
                     /\ p \in eliminated' <=> p \in eliminated
                     /\ p \in made_wrong_accusation' <=> p \in made_wrong_accusation
              /\ eliminated' # Players => ~game_over']_vars

\* a wrong accusation went through process_accusation: the accuser is out,
\* somebody else is still in, and the game is on
C24_Witness ==
    /\ made_wrong_accusation # {}
    /\ made_wrong_accusation \subseteq eliminated
    /\ eliminated # Players
    /\ ~game_over
    /\ winner = None

\* C25: whenever every player is eliminated, the game is over and has no
\* winner, whichever way the accusations were resolved.
C25_AllEliminatedEndsGame ==
    eliminated = Players => (game_over /\ winner = None)


\* the other players in turn order, starting with the one after the suggester
TurnOrder(suggesting_player) ==
    [k \in 1..(NumPlayers - 1) |-> (suggesting_player + k) % NumPlayers]

\* the places in the turn order of the players who hold a suggested card
HoldersInOrder(suggesting_player, suggestion) ==
    {k \in 1..(NumPlayers - 1) :
        respond_to_suggestion(TurnOrder(suggesting_player)[k], suggestion) # {}}

\* the places in the turn order of the players who were asked
PlacesAsked ==
    [i \in 1..Len(suggested.asked) |->
        CHOOSE k \in 1..(NumPlayers - 1) :
            TurnOrder(suggested.suggesting_player)[k] = suggested.asked[i]]

\* C29: process_suggestion asks the other players in turn order from the one
\* after the suggester and never the suggester, the responder is the first
\* player asked who holds a suggested card and nobody is asked after them, at
\* most one full circle is made, and no responder is reported only if no other
\* player holds any of the three cards.
C29_RefutationOrder ==
    suggested # NoEvent =>
        LET asked == suggested.asked
            responding_player == suggested.responding_player
        IN  /\ \A i \in 1..Len(asked) : asked[i] # suggested.suggesting_player
            /\ \A i, j \in 1..Len(asked) : i < j => PlacesAsked[i] < PlacesAsked[j]
            /\ Len(asked) <= NumPlayers - 1
            /\ \A i \in 1..Len(asked) :
                   respond_to_suggestion(asked[i], suggested.suggestion) # {}
                       <=> (i = Len(asked) /\ responding_player = asked[i])
            /\ responding_player = None =>
                   HoldersInOrder(suggested.suggesting_player,
                                  suggested.suggestion) = {}

\* C30: an eliminated player with no holder of a suggested card before them in
\* turn order was asked by process_suggestion, and is the responder if they
\* hold a suggested card themselves.
C30_EliminatedPlayersStillRefute ==
    suggested # NoEvent =>
        \A k \in 1..(NumPlayers - 1) :
            LET p == TurnOrder(suggested.suggesting_player)[k]
            IN  (/\ p \in eliminated
                 /\ \A j \in HoldersInOrder(suggested.suggesting_player,
                                            suggested.suggestion) : k <= j) =>
                    /\ \E i \in 1..Len(suggested.asked) : suggested.asked[i] = p
                    /\ respond_to_suggestion(p, suggested.suggestion) # {}
                           => suggested.responding_player = p

(***************************************************************************)
(* The computer players.  SimpleAIPlayer keeps no knowledge base: its      *)
(* possible_suspects and possible_weapons are the sets its tests give it,  *)
(* every name.  KnowledgeAIPlayer owns a set-based KnowledgeBase and       *)
(* SmarterAIPlayer a matrix engine.  The player is player_id; calls counts *)
(* the calls made on it.                                                   *)
(***************************************************************************)
AIPlayers == {"SimpleAIPlayer", "KnowledgeAIPlayer", "SmarterAIPlayer"}

\* self.eliminated of the computer player
Out == player_id \in eliminated

\* for card_type, card_name in hand: self.set_holder(card_name, self.player_id)
RECURSIVE KnowledgeBase_initialize_with_hand(_, _, _)
KnowledgeBase_initialize_with_hand(B, owner, hand) ==
    IF hand = <<>>
    THEN B
    ELSE KnowledgeBase_initialize_with_hand(
             KnowledgeBase_set_holder(B, Head(hand), owner), owner, Tail(hand))

\* the moves a turn can offer
Moves == {Str("R1"), Str("R2"), Str("Clue"), Entrance("R1"),
          Hallway("h1"), Hallway("h2")}

\* the hand of the computer player and the hands around it
AIDeal == [p \in Players |-> IF p = 0 THEN {"S1", "W1"}
                             ELSE IF p = 1 THEN {"S3"} ELSE {"R2"}]

\* a game is dealt, the computer player has initialized its knowledge base
\* with its hand, and its character stands in a room
InitAI ==
    /\ \E envelope \in Envelopes, class \in AIPlayers, out \in BOOLEAN :
         \E hand \in {CHOOSE h \in SeqsOf(AIDeal[0]) : TRUE} :
             /\ hands = AIDeal
             /\ game_solution = <<envelope[3], envelope[1], envelope[2]>>
             /\ player_id = 0
             /\ player_class = class
             /\ eliminated = IF out THEN {0} ELSE {}
             /\ Holds(IF class = "SmarterAIPlayer"
                      THEN initialize_with_hand(NewKB, 0, hand)
                      ELSE NewKB)
             /\ knowledge_base = IF class = "KnowledgeAIPlayer"
                                 THEN KnowledgeBase_initialize_with_hand(
                                          NewKnowledgeBase, 0, hand)
                                 ELSE NewKnowledgeBase
    /\ knowledge = TRUE
    /\ NoCalls
    /\ Keeps(NewKnowledge)
    /\ NewGame
    /\ position \in {Str(room) : room \in Rooms}
    /\ turn_count = 0
    /\ last_positions = <<>>
    /\ previous_suggestions = {}
    /\ must_exit_next_turn = FALSE
    /\ last_suggestion_room = NoCard
    /\ NoSheet

\* one call on the computer player: the game and the histories of the engine
\* stay as they are
Decides ==
    /\ calls < MaxDecisions
    /\ calls' = calls + 1
    /\ UNCHANGED <<outcome, recorded, refuted, env_eliminated, passes, event>>
    /\ UNCHANGED gameVars
    /\ UNCHANGED callVars
    /\ UNCHANGED <<knowledgeVars, endVars, score_sheet>>
    /\ UNCHANGED player_class

\* the knowledge base of the player's class takes the new value
Knows(K, B) ==
    /\ Install(IF player_class = "SmarterAIPlayer" THEN K ELSE KB)
    /\ knowledge_base' = IF player_class = "KnowledgeAIPlayer" THEN B
                         ELSE knowledge_base

\* a call that reads the knowledge base and leaves it as it is
Recalls ==
    /\ UNCHANGED <<poss, atleast_one, changed, solution_known, solution>>
    /\ UNCHANGED knowledge_base

\* the cards another player can show
Shows == UNION {Hand(p) : p \in Players \ {player_id}}

\* KnowledgeAIPlayer.see_refutation, which SmarterAIPlayer inherits, called
\* with a card another player shows
SeeRefutation(card) ==
    /\ Decides
    /\ calls < MaxLearned
    /\ player_class # "SimpleAIPlayer"
    /\ card \in Shows
    /\ Knows(eliminate(KB, card, ENVELOPE),
             KnowledgeBase_eliminate(knowledge_base, card, ENVELOPE))
    /\ UNCHANGED <<position, turn_count, last_positions, previous_suggestions,
                   must_exit_next_turn, last_suggestion_room>>

\* process_suggestion tells the computer player about a suggestion:
\* update_knowledge_from_suggestion of its class
ObserveSuggestion(suggesting_player, suggestion, card) ==
    LET responding_player == Responder(suggesting_player, suggestion)
        revealed_card == Seen(suggesting_player, card)
    IN  /\ Decides
        /\ calls < MaxLearned
        /\ player_class # "SimpleAIPlayer"
        /\ suggesting_player \notin eliminated
        /\ card \in Shown(suggesting_player, suggestion)
        /\ Knows(update_knowledge_from_suggestion(
                     KB, suggesting_player,
                     <<suggestion[3], suggestion[1], suggestion[2]>>,
                     responding_player, revealed_card),
                 KnowledgeBase_update_from_suggestion(
                     knowledge_base, suggesting_player, suggestion,
                     responding_player, revealed_card))
        /\ UNCHANGED <<position, turn_count, last_positions,
                       previous_suggestions, must_exit_next_turn,
                       last_suggestion_room>>

\* kb.envelope_candidates() of the player's class, one category of it
EnvelopeOf(card_list) ==
    IF player_class = "SmarterAIPlayer" THEN envelope_candidates(card_list)
    ELSE IF player_class = "SimpleAIPlayer" THEN Range(card_list)
    ELSE IF card_list = character_names THEN knowledge_base.envelope_suspects
    ELSE IF card_list = weapon_names THEN knowledge_base.envelope_weapons
    ELSE knowledge_base.envelope_rooms

\* if no candidates remain, fall back to all options
Options(card_list) ==
    IF EnvelopeOf(card_list) = {} THEN Range(card_list) ELSE EnvelopeOf(card_list)

possible_suspects == Options(character_names)
possible_weapons == Options(weapon_names)

\* sum(len(self.possible_holders(c)) - 1 for c in card_set)
RECURSIVE expected_information_gain(_)
expected_information_gain(card_set) ==
    IF card_set = {} THEN 0
    ELSE LET c == CHOOSE x \in card_set : TRUE
         IN  Cardinality(possible_holders(c)) - 1
                 + expected_information_gain(card_set \ {c})

\* every combination of a suspect and a weapon
EverySuggestion(suspects, weapons, room) == suspects \X weapons

\* the combinations kept: those not in previous_suggestions for the room
Novel(suspects, weapons, room) ==
    {sw \in suspects \X weapons : <<sw[1], sw[2], room>> \notin previous_suggestions}

\* the place of a name in its list; the names sort as they are listed
Rank(card_list, name) == CHOOSE i \in 1..Len(card_list) : card_list[i] = name

\* score = -self.kb.expected_information_gain({suspect, weapon, room_card})
Score(sw, room) == 0 - expected_information_gain({sw[1], sw[2], room})

\* (score, (suspect, weapon)) tuples compare by score, then by the names
SortsBefore(a, b, room) ==
    \/ Score(a, room) < Score(b, room)
    \/ /\ Score(a, room) = Score(b, room)
       /\ \/ Rank(character_names, a[1]) < Rank(character_names, b[1])
          \/ /\ a[1] = b[1]
             /\ Rank(weapon_names, a[2]) <= Rank(weapon_names, b[2])

\* choose_suggestion returns None
NoPair == <<NoCard, NoCard>>

\* SmarterAIPlayer.choose_suggestion: the pairs it can return
SmarterAIPlayer_choose_suggestion(room) ==
    LET suggestions == Novel(possible_suspects, possible_weapons, room)
    IN  IF Out THEN {NoPair}
        ELSE IF suggestions = {} THEN possible_suspects \X possible_weapons
        ELSE {CHOOSE a \in suggestions :
                  \A b \in suggestions : SortsBefore(a, b, room)}

\* KnowledgeAIPlayer.choose_suggestion and SimpleAIPlayer.choose_suggestion:
\* a random novel pair, any pair when none is novel
KnowledgeAIPlayer_choose_suggestion(room) ==
    LET novel_suggestions == Novel(possible_suspects, possible_weapons, room)
    IN  IF novel_suggestions = {} THEN possible_suspects \X possible_weapons
        ELSE novel_suggestions

choose_suggestion(room) ==
    IF player_class = "SmarterAIPlayer"
    THEN SmarterAIPlayer_choose_suggestion(room)
    ELSE KnowledgeAIPlayer_choose_suggestion(room)

\* handle_suggestion(game, room) for the room the player stands in; an
\* eliminated SmarterAIPlayer returns None at once
HandleSuggestion(room, suggestion) ==
    /\ Decides
    /\ Recalls
    /\ position.kind \in {"str", "tuple3"} /\ position.at = room
    /\ suggestion \in choose_suggestion(room)
    /\ IF player_class = "SmarterAIPlayer" /\ Out
       THEN UNCHANGED <<must_exit_next_turn, last_suggestion_room,
                        previous_suggestions>>
       ELSE /\ must_exit_next_turn' = TRUE
            /\ last_suggestion_room' = room
            /\ previous_suggestions' =
                   previous_suggestions \cup {<<suggestion[1], suggestion[2], room>>}
    /\ UNCHANGED <<position, turn_count, last_positions>>

\* _get_room_name: the room of a move, None for a hallway square
_get_room_name(move) ==
    IF move.kind \in {"str", "tuple3"} THEN move.at ELSE NoCard

\* isinstance(m, tuple) and len(m) == 2
HallwayMoves(available_moves) == {m \in available_moves : m.kind = "tuple2"}

\* isinstance(move, str) or (isinstance(move, tuple) and len(move) == 3)
RoomMoves(available_moves) ==
    {m \in available_moves : m.kind \in {"str", "tuple3"}}

\* the moves into the Clue room
ClueMoves(available_moves) ==
    {m \in available_moves : _get_room_name(m) = "Clue"}

\* deque(maxlen=3)
DequeLen == 3

\* if self.turn_count > 80: the player heads for the Clue room
ClueRush == 80

\* what a call of make_move returns and leaves behind
Made(move, flag, positions, count) ==
    [move |-> move, must_exit_next_turn |-> flag, last_positions |-> positions,
     turn_count |-> count]

\* self.last_positions.append(chosen_move) on a deque(maxlen=3)
Remember(move) ==
    IF Len(last_positions) = DequeLen
    THEN Append(Tail(last_positions), move)
    ELSE Append(last_positions, move)

\* a hallway move, one not in last_positions if there is one, is remembered
ThroughHallways(hallway_moves, flag, count) ==
    LET filtered_hallway_moves ==
            {m \in hallway_moves : m \notin Range(last_positions)}
    IN  {Made(m, flag, IF m.kind = "tuple2" THEN Remember(m) ELSE last_positions,
              count) :
             m \in IF filtered_hallway_moves # {} THEN filtered_hallway_moves
                   ELSE hallway_moves}

\* SmarterAIPlayer.make_move
SmarterAIPlayer_make_move(available_moves) ==
    LET count == turn_count + 1
        hallway_moves == HallwayMoves(available_moves)
        room_moves == RoomMoves(available_moves)
        unvisited_rooms ==
            {m \in room_moves : _get_room_name(m) # last_suggestion_room}
        candidate_room_moves ==
            {m \in unvisited_rooms :
                 _get_room_name(m) \in envelope_candidates(room_names)}
    IN  IF Out
        THEN {Made(NoMove, must_exit_next_turn, last_positions, turn_count)}
        ELSE IF available_moves = {}
        THEN {Made(NoMove, must_exit_next_turn, last_positions, count)}
        ELSE IF must_exit_next_turn /\ hallway_moves # {}
        THEN {Made(m, FALSE, last_positions, count) : m \in hallway_moves}
        ELSE IF solution_known /\ ClueMoves(available_moves) # {}
        THEN {Made(m, must_exit_next_turn, last_positions, count) :
                  m \in ClueMoves(available_moves)}
        ELSE IF room_moves # {}
        THEN {Made(m, must_exit_next_turn, last_positions, count) :
                  m \in IF unvisited_rooms = {} THEN room_moves
                        ELSE IF candidate_room_moves # {}
                        THEN candidate_room_moves
                        ELSE unvisited_rooms}
        ELSE ThroughHallways(available_moves \ room_moves,
                             must_exit_next_turn, count)

\* SimpleAIPlayer.make_move; visited_rooms, which nothing reads, is left out
SimpleAIPlayer_make_move(available_moves) ==
    LET count == turn_count + 1
        current_room == _get_room_name(position)
        leaving == must_exit_next_turn /\ current_room # NoCard
        flag == IF leaving THEN FALSE ELSE must_exit_next_turn
        hallway_moves == HallwayMoves(available_moves)
        room_moves == RoomMoves(available_moves)
        available_room_moves ==
            {r \in room_moves : _get_room_name(r) # last_suggestion_room}
    IN  IF available_moves = {}
        THEN {Made(NoMove, must_exit_next_turn, last_positions, count)}
        ELSE IF leaving /\ hallway_moves # {}
        THEN {Made(m, FALSE, last_positions, count) : m \in hallway_moves}
        ELSE IF room_moves # {}
        THEN IF count > ClueRush /\ ClueMoves(room_moves) # {}
             THEN {Made(m, flag, last_positions, count) :
                       m \in ClueMoves(room_moves)}
             ELSE {Made(m, flag, last_positions, count) :
                       m \in IF available_room_moves = {} THEN room_moves
                             ELSE available_room_moves}
        ELSE ThroughHallways(available_moves \ room_moves, flag, count)

\* KnowledgeAIPlayer.make_move: every move that is not a string is a corridor
KnowledgeAIPlayer_make_move(available_moves) ==
    LET count == turn_count + 1
        corridor_moves == {m \in available_moves : m.kind # "str"}
    IN  IF must_exit_next_turn /\ corridor_moves # {}
        THEN {Made(m, FALSE, last_positions, count) : m \in corridor_moves}
        ELSE IF available_moves # {}
        THEN {Made(m, must_exit_next_turn, last_positions, count) :
                  m \in available_moves}
        ELSE {Made(NoMove, must_exit_next_turn, last_positions, count)}

make_move(available_moves) ==
    IF player_class = "SmarterAIPlayer"
    THEN SmarterAIPlayer_make_move(available_moves)
    ELSE IF player_class = "SimpleAIPlayer"
    THEN SimpleAIPlayer_make_move(available_moves)
    ELSE KnowledgeAIPlayer_make_move(available_moves)

\* the moves a turn offers: at most MaxOffered of them
Offers == {available_moves \in SUBSET Moves : Cardinality(available_moves) <= MaxOffered}

\* process_ai_turn: make_move, then the character moves to the move chosen
MakeMove(available_moves, made) ==
    /\ Decides
    /\ Recalls
    /\ turn_count < MaxMoved
    /\ made \in make_move(available_moves)
    /\ position' = IF made.move = NoMove THEN position ELSE made.move
    /\ turn_count' = made.turn_count
    /\ last_positions' = made.last_positions
    /\ must_exit_next_turn' = made.must_exit_next_turn
    /\ UNCHANGED <<previous_suggestions, last_suggestion_room>>

NextAI ==
    \/ \E card \in Cards : SeeRefutation(card)
    \/ \E suggesting_player \in Players, suggestion \in Suggestions :
           \E card \in Shown(suggesting_player, suggestion) :
               ObserveSuggestion(suggesting_player, suggestion, card)
    \/ \E room \in Rooms :
           \E suggestion \in choose_suggestion(room) :
               HandleSuggestion(room, suggestion)
    \/ \E available_moves \in Offers :
           \E made \in make_move(available_moves) :
               MakeMove(available_moves, made)

SpecAI == InitAI /\ [][NextAI]_vars

\* the candidate pairs not yet suggested in the room
Unsuggested(room) == Novel(possible_suspects, possible_weapons, room)

\* C26: when a SmarterAIPlayer suggests in a room where candidate pairs are
\* still unsuggested, the cards of the pair it returns, with the room, have
\* the lowest total of remaining possible holders among those pairs, as
\* expected_information_gain counts it.
C26_LowestHolderCountChosen ==
    [][\A room \in Rooms, suggestion \in Suspects \X Weapons :
           (/\ player_class = "SmarterAIPlayer"
            /\ Unsuggested(room) # {}
            /\ HandleSuggestion(room, suggestion))
           => \A other \in Unsuggested(room) :
                  expected_information_gain({suggestion[1], suggestion[2], room})
                      <= expected_information_gain({other[1], other[2], room})]_vars

\* the envelope candidates of the player among suspects and weapons
CandidateSuspects == EnvelopeOf(character_names)
CandidateWeapons == EnvelopeOf(weapon_names)

\* C27: a suggestion chosen for a room is not one already made there as long
\* as some pair of a candidate suspect and a candidate weapon has not been
\* suggested in that room, and the suspect and the weapon chosen are envelope
\* candidates whenever any remain.
C27_NoRepeatedSuggestion ==
    [][\A room \in Rooms, suggestion \in Suspects \X Weapons :
           HandleSuggestion(room, suggestion)
           => /\ (\E s \in CandidateSuspects, w \in CandidateWeapons :
                      <<s, w, room>> \notin previous_suggestions)
                  => <<suggestion[1], suggestion[2], room>> \notin previous_suggestions
              /\ CandidateSuspects # {} => suggestion[1] \in CandidateSuspects
              /\ CandidateWeapons # {} => suggestion[2] \in CandidateWeapons]_vars

\* two suggestions have been made in one room, the second with the first on
\* record
C27_Witness ==
    /\ \E room \in Rooms :
           Cardinality({t \in previous_suggestions : t[3] = room}) >= 2
    /\ must_exit_next_turn
    /\ player_class \in {"KnowledgeAIPlayer", "SmarterAIPlayer"}

\* C28: handle_suggestion sets must_exit_next_turn and makes the room
\* last_suggestion_room; a make_move with the flag set and a hallway square on
\* offer returns a hallway square and clears the flag; and no make_move that
\* returns a move into a room clears the flag.
C28_LeavesRoomAfterSuggesting ==
    [][/\ \A room \in Rooms, suggestion \in Suspects \X Weapons :
              HandleSuggestion(room, suggestion)
              => must_exit_next_turn' /\ last_suggestion_room' = room
       /\ \A available_moves \in Offers :
              \A made \in make_move(available_moves) :
                  MakeMove(available_moves, made)
                  => /\ (must_exit_next_turn /\ HallwayMoves(available_moves) # {})
                         => made.move.kind = "tuple2" /\ ~must_exit_next_turn'
                     /\ (must_exit_next_turn /\ ~must_exit_next_turn')
                         => made.move \notin RoomMoves(available_moves)]_vars

\* C31: when process_suggestion tells the players of a suggestion, a player
\* other than the suggester ends with the same knowledge whichever matching
\* card the responder shows; the card is passed only in calls on the
\* suggester; and no player is called more than once.
C31_OnlySuggesterLearnsCard ==
    [][\A suggesting_player \in Players, suggestion \in Suggestions :
           \A card \in Shown(suggesting_player, suggestion) :
               (/\ Len(events') = Len(events) + 1
                /\ events'[Len(events')].by = suggesting_player
                /\ UpdateKnowledgeFromSuggestion(suggesting_player, suggestion, card))
               => /\ player_id # suggesting_player
                      => \A other \in Shown(suggesting_player, suggestion) :
                             Informed(PK, player_id, suggesting_player, suggestion, other)
                                 = Informed(PK, player_id, suggesting_player, suggestion, card)
                  /\ \A p \in Players :
                         LET updates == Updates(p, suggesting_player, suggestion, card)
                         IN  /\ Len(updates) <= 1
                             /\ p # suggesting_player
                                 => \A i \in 1..Len(updates) :
                                        updates[i].revealed_card = NoCard]_vars

\* the player has been told of another player's suggestion that the responder
\* could refute with either of two cards
C31_Witness ==
    \E i \in Logged("suggestion") :
        /\ events[i].by # player_id
        /\ events[i].responding_player # None
        /\ events[i].revealed_card = NoCard
        /\ Cardinality(Hand(events[i].responding_player) \cap Range(events[i].triple)) >= 2


(***************************************************************************)
(* eliminate and set_holder called on both engines, long enough for a      *)
(* card to be narrowed to one holder by eliminate alone.                   *)
(***************************************************************************)
MaxNarrowed == 3

\* one call, made on both engines
Narrow(K, B) ==
    /\ calls < MaxNarrowed
    /\ calls' = calls + 1
    /\ outcome' = "returned"
    /\ Install(K)
    /\ knowledge_base' = B
    /\ UNCHANGED <<recorded, refuted, env_eliminated, passes, event>>
    /\ UNCHANGED gameVars
    /\ UNCHANGED callVars
    /\ UNCHANGED knowledgeVars
    /\ UNCHANGED <<endVars, aiVars, score_sheet>>

NarrowSetHolder(card, holder) ==
    Narrow(set_holder(KB, card, holder),
           KnowledgeBase_set_holder(knowledge_base, card, holder))

NarrowEliminate(card, holder) ==
    Narrow(eliminate(KB, card, holder),
           KnowledgeBase_eliminate(knowledge_base, card, holder))

NextNarrow ==
    \/ \E card \in Cards, holder \in Holders : NarrowSetHolder(card, holder)
    \/ \E card \in Cards, holder \in Holders : NarrowEliminate(card, holder)

SpecNarrow == Init /\ [][NextNarrow]_vars

\* the holders the matrix engine K still allows for a card
RowHolders(K, card) == {h \in Holders : K.poss[card][h]}

\* the matrix (and with it the envelope candidates read from it), the flag and
\* the solution of two matrix engines agree
SameEngine(K1, K2) ==
    /\ K1.poss = K2.poss
    /\ K1.solution_known = K2.solution_known
    /\ K1.solution = K2.solution

\* the same for two set-based engines, whose envelope candidates are fields
SameKnowledgeBase(B1, B2) ==
    /\ B1.possibility_matrix = B2.possibility_matrix
    /\ B1.envelope_suspects = B2.envelope_suspects
    /\ B1.envelope_weapons = B2.envelope_weapons
    /\ B1.envelope_rooms = B2.envelope_rooms
    /\ B1.solution_known = B2.solution_known
    /\ B1.solution = B2.solution

\* C32: an eliminate that removes a holder and leaves the card with exactly
\* one possible holder H leaves the engine (matrix, envelope candidates,
\* solution flag and solution) as set_holder(card, H) would have left it from
\* the same prior state, in the matrix engine and in the set-based engine, for
\* a player H and for the envelope.
C32_EliminateToOneIsAssign ==
    [][\A card \in Cards, holder \in Holders :
           NarrowEliminate(card, holder)
           => \A H \in Holders :
                  /\ (poss[card][holder] /\ RowHolders([poss |-> poss'], card) = {H})
                      => SameEngine([poss |-> poss',
                                     solution_known |-> solution_known',
                                     solution |-> solution'],
                                    set_holder(KB, card, H))
                  /\ (/\ holder \in knowledge_base.possibility_matrix[card]
                      /\ knowledge_base'.possibility_matrix[card] = {H})
                      => SameKnowledgeBase(
                             knowledge_base',
                             KnowledgeBase_set_holder(knowledge_base, card, H))]_vars

\* C33: in every state reached by suggestions resolved by the game rules from
\* a deal, at most one card of each category has ENVELOPE as its only
\* possible holder.
C33_OneSolutionCardPerCategory ==
    \A k \in 1..Len(categories) : Cardinality(EnvelopeOnlyCards(categories[k])) <= 1

\* ImprovedKnowledgeBase.solution_if_forced
solution_if_forced == IF solution_known THEN solution ELSE NoSolution

\* random.choice of an empty list
IndexError == <<"IndexError">>

\* SmarterAIPlayer.handle_accusation: the (room, suspect, weapon) tuples it
\* can return, None for an eliminated player
SmarterAIPlayer_handle_accusation ==
    LET suspects == envelope_candidates(character_names)
        weapons == envelope_candidates(weapon_names)
        rooms == envelope_candidates(room_names)
    IN  IF player_id \in eliminated
        THEN {NoTriple}
        ELSE IF suspects = {} \/ weapons = {} \/ rooms = {}
        THEN {IndexError}
        ELSE {<<room, suspect, weapon>> :
                  room \in rooms, suspect \in suspects, weapon \in weapons}

\* C34: whenever is_solution_known() is true, each category has exactly one
\* envelope candidate, the three candidates are the triple solution_if_forced()
\* returns, and handle_accusation of a player still in the game returns
\* exactly that solution.
C34_KnownSolutionIsAccused ==
    is_solution_known
    => /\ envelope_candidates(character_names) = {solution_if_forced[1]}
       /\ envelope_candidates(weapon_names) = {solution_if_forced[2]}
       /\ envelope_candidates(room_names) = {solution_if_forced[3]}
       /\ player_id \notin eliminated
           => SmarterAIPlayer_handle_accusation
                  = {<<solution_if_forced[3], solution_if_forced[1],
                       solution_if_forced[2]>>}

\* C35: once is_solution_known() is true, it stays true and the triple
\* returned by solution_if_forced() and get_solution() is the same after every
\* later mutator call, in the matrix engine and in the set-based engine.
C35_KnownSolutionIsStable ==
    [][/\ is_solution_known
           => /\ is_solution_known'
              /\ solution_if_forced' = solution_if_forced
              /\ get_solution' = get_solution
       /\ knowledge_base.solution_known
           => /\ knowledge_base'.solution_known
              /\ knowledge_base'.solution = knowledge_base.solution]_vars

(***************************************************************************)
(* The loops over the players who passed, step by step, for the player ids *)
(* a game can hold: Game.create_players numbers the players from 1, the    *)
(* tests' fixtures from 0.                                                 *)
(***************************************************************************)
MaxWalk == 6

\* len(self.game.players) in the games walked
Lens == 2..4

\* the classes that walk from the suggester to the responder
Walkers == {"SmarterAIPlayer", "PlayerKnowledge", "ImprovedKnowledgeBase"}

\* [p.player_id for p in self.game.players], the first player having id first:
\* Player(i + 1, ...) in create_players
PlayerIds(first, len) == [i \in 1..len |-> first + i - 1]

\* player_ids.index(id), counted from 0
IndexOf(ids, id) == (CHOOSE i \in 1..Len(ids) : ids[i] = id) - 1

\* where the walk starts: SmarterAIPlayer and PlayerKnowledge step through
\* ids, ImprovedKnowledgeBase through indices of player_ids
WalkStart(walker, ids, suggesting_player) ==
    IF walker = "ImprovedKnowledgeBase"
    THEN (IndexOf(ids, suggesting_player) + 1) % Len(ids)
    ELSE (suggesting_player + 1) % Len(ids)

\* where the while loop stops
WalkEnd(walker, ids, responding_player) ==
    IF walker = "ImprovedKnowledgeBase" THEN IndexOf(ids, responding_player)
    ELSE responding_player

\* the id the body of the loop is applied to
Touched(walker, ids, current) ==
    IF walker = "ImprovedKnowledgeBase" THEN ids[current + 1] ELSE current

\* a suggestion that some other player refuted reaches the loop
InitWalk ==
    /\ Holds(NewKB)
    /\ NoSide
    /\ NoGame
    /\ calls = 0
    /\ recorded = {}
    /\ refuted = {}
    /\ env_eliminated = {}
    /\ assigned = {}
    /\ excluded = {}
    /\ passes = 0
    /\ outcome = "running"
    /\ \E walker \in Walkers, first \in {0, 1}, len \in Lens :
         \E suggesting_player \in Range(PlayerIds(first, len)) :
           \E responding_player \in Range(PlayerIds(first, len)) \ {suggesting_player} :
               event = [walker |-> walker,
                        player_ids |-> PlayerIds(first, len),
                        suggesting_player |-> suggesting_player,
                        responding_player |-> responding_player,
                        current |-> WalkStart(walker, PlayerIds(first, len),
                                              suggesting_player),
                        touched |-> {}]

WalkFrame ==
    /\ UNCHANGED <<poss, atleast_one, changed, solution_known, solution>>
    /\ UNCHANGED <<calls, recorded, refuted, env_eliminated>>
    /\ UNCHANGED gameVars
    /\ UNCHANGED <<callVars, sideVars>>

\* one iteration of the while loop: the body is applied to the current
\* player, and the walk moves on. player_not_cards has a key for each
\* player's id only; ImprovedKnowledgeBase.eliminate returns on an unknown
\* holder
WalkOn ==
    LET at == Touched(event.walker, event.player_ids, event.current)
    IN  /\ outcome = "running"
        /\ passes < MaxWalk
        /\ event.current # WalkEnd(event.walker, event.player_ids,
                                   event.responding_player)
        /\ passes' = passes + 1
        /\ IF event.walker = "PlayerKnowledge" /\ at \notin Range(event.player_ids)
           THEN /\ outcome' = "raised"
                /\ event' = [event EXCEPT !.touched = @ \cup {at}]
           ELSE /\ outcome' = "running"
                /\ event' = [event EXCEPT
                                 !.touched = @ \cup {at},
                                 !.current = (@ + 1) % Len(event.player_ids)]
        /\ WalkFrame

\* the loop condition fails: the responder is reached
WalkDone ==
    /\ outcome = "running"
    /\ event.current = WalkEnd(event.walker, event.player_ids,
                               event.responding_player)
    /\ outcome' = "returned"
    /\ UNCHANGED <<passes, event>>
    /\ WalkFrame

NextWalk == WalkOn \/ WalkDone

SpecWalk == InitWalk /\ [][NextWalk]_vars

\* C36: for every suggesting and responding player id a game can hold, also
\* with the ids Game.create_players assigns, the walk from the player after
\* the suggester reaches the responder after fewer than len(players) steps,
\* does not raise, and touches only ids of existing players.
C36_WalkReachesResponder ==
    /\ passes < Len(event.player_ids)
    /\ outcome # "raised"
    /\ event.touched \subseteq Range(event.player_ids)

\* C37: for any deal and any suggestions resolved by the game rules and
\* recorded with record_suggestion followed by apply_deductions,
\* possible_solution of each category still contains the true envelope card
\* of that category, and every card in player_cards[p] is held by player p.
C37_PlayerKnowledgeSound ==
    /\ game_solution[1] \in possible_solution.rooms
    /\ game_solution[2] \in possible_solution.suspects
    /\ game_solution[3] \in possible_solution.weapons
    /\ \A p \in Players : player_cards[p] \subseteq Hand(p)

\* C38: after any add_card_to_hand, record_suggestion, record_accusation and
\* apply_deductions calls, no card is both in player_cards[p] and in
\* player_not_cards[p] for a player p, and no card is in player_cards of two
\* different players.
C38_PlayerKnowledgeConsistent ==
    /\ \A p \in Players : player_cards[p] \cap player_not_cards[p] = {}
    /\ \A p, q \in Players : p # q => player_cards[p] \cap player_cards[q] = {}

(***************************************************************************)
(* A score sheet under any marks, for sheets of one player and more.       *)
(***************************************************************************)
MaxMarks == 4

\* a sheet is made for the names of the players
InitSheet ==
    /\ Holds(NewKB)
    /\ NoCalls
    /\ NoGame
    /\ Keeps(NewKnowledge)
    /\ knowledge_base = NewKnowledgeBase
    /\ NewGame
    /\ player_class = "Player"
    /\ NoStrategy
    /\ \E num_players \in 1..NumPlayers : score_sheet = NewScoreSheet(num_players)

\* one call on the sheet
Marks(S) ==
    /\ calls < MaxMarks
    /\ calls' = calls + 1
    /\ score_sheet' = S
    /\ UNCHANGED <<poss, atleast_one, changed, solution_known, solution>>
    /\ UNCHANGED <<outcome, recorded, refuted, env_eliminated, passes, event>>
    /\ UNCHANGED gameVars
    /\ UNCHANGED callVars
    /\ UNCHANGED <<knowledgeVars, knowledge_base, endVars, aiVars>>

MarkPlayerHasCard(player, card_name) ==
    Marks(mark_player_has_card(score_sheet, player, card_name))

MarkPlayerNotHasCard(player, card_name) ==
    Marks(mark_player_not_has_card(score_sheet, player, card_name))

MarkSolutionCard(card_name) ==
    Marks(mark_solution_card(score_sheet, card_name))

NextSheet ==
    \/ \E player \in Players, card_name \in Cards :
           MarkPlayerHasCard(player, card_name)
    \/ \E player \in Players, card_name \in Cards :
           MarkPlayerNotHasCard(player, card_name)
    \/ \E card_name \in Cards : MarkSolutionCard(card_name)

SpecSheet == InitSheet /\ [][NextSheet]_vars

\* the players of the sheet
SheetPlayers == 0..(score_sheet.num_players - 1)

\* the cards marked as solution, of all categories
SolutionCards ==
    score_sheet.solution_suspects \cup score_sheet.solution_weapons
        \cup score_sheet.solution_rooms

\* the players marked 'has' for a card
MarkedHas(card_name) ==
    {pid \in SheetPlayers : score_sheet.player_knowledge[pid][card_name] = "has"}

\* every player is marked 'not_has' for the card
NobodyHas(card_name) ==
    \A pid \in SheetPlayers : score_sheet.player_knowledge[pid][card_name] = "not_has"

\* C39: after any mark_player_has_card, mark_player_not_has_card and
\* mark_solution_card calls, at most one player is marked 'has' for a card,
\* every card in a solution set is marked 'not_has' for all players, and a
\* card marked 'not_has' for all players is in the solution set of its
\* category.
C39_ScoreSheetConsistent ==
    /\ \A c \in Cards : Cardinality(MarkedHas(c)) <= 1
    /\ \A c \in SolutionCards : NobodyHas(c)
    /\ \A c \in Cards :
           NobodyHas(c) => /\ c \in Suspects => c \in score_sheet.solution_suspects
                           /\ c \in Weapons => c \in score_sheet.solution_weapons
                           /\ c \in Rooms => c \in score_sheet.solution_rooms

\* on a sheet of several players, one card is in a solution set, another is
\* marked 'has' for one player and 'not_has' for the others
C39_Witness ==
    /\ score_sheet.num_players > 1
    /\ SolutionCards # {}
    /\ \E c \in Cards :
           /\ Cardinality(MarkedHas(c)) = 1
           /\ \A pid \in SheetPlayers \ MarkedHas(c) :
                  score_sheet.player_knowledge[pid][c] = "not_has"
====
